---- MODULE Spec2Model ----
(***************************************************************************)
(* Model of the upload/verification page of ffl-verifier-app               *)
(* (src/pages/upload.js, the UploadPage component starting at line 345).   *)
(*                                                                         *)
(* Text values are sequences of one-character strings, so that the         *)
(* normalisers (norm, normDigits, normManufacturer, ...) are computed      *)
(* character by character as the code's regular expressions compute them.  *)
(* An absent value (null / undefined) is the empty text: every place of    *)
(* the code that reads a cell goes through `?? ""`, `|| ""` or             *)
(* normalizeCell, which map absent values to "".                           *)
(***************************************************************************)
EXTENDS Integers, Sequences, FiniteSets, TLC

VARIABLES
    catalog,                 \* the external catalog table (store order)
    rows,                    \* useState rows
    results,                 \* useState results
    loading,                 \* useState loading
    error,                   \* useState error
    pc,                      \* position of verifyData: idle / upcFetch / scan
    runRows,                 \* the rows value captured by the running verifyData
    upcKeys,                 \* local upcKeys of the running verifyData
    upcMap,                  \* local upcMap (insertion-ordered)
    atfCandidateMap,         \* local atfCandidateMap (insertion-ordered)
    atfManufacturerModelMap, \* local atfManufacturerModelMap
    catalogUpc,              \* local catalogUpc (result of the identifier fetch)
    from,                    \* local paging offset
    debugInfo,               \* useState debugInfo
    loads,                   \* number of file selections made so far
    download,                \* the text downloadCSV hands to the browser
    call,                    \* the last application of a helper function
    activeStatusFilters      \* useState activeStatusFilters

vars == <<catalog, rows, results, loading, error, pc, runRows, upcKeys,
          upcMap, atfCandidateMap, atfManufacturerModelMap, catalogUpc, from,
          debugInfo, loads, download, call, activeStatusFilters>>

----------------------------------------------------------------------------
(* Characters and elementary text operations                               *)

LowerChars == <<"a","b","c","d","e","f","g","h","i","j","k","l","m",
                "n","o","p","q","r","s","t","u","v","w","x","y","z">>
UpperChars == <<"A","B","C","D","E","F","G","H","I","J","K","L","M",
                "N","O","P","Q","R","S","T","U","V","W","X","Y","Z">>
DigitChars == {"0","1","2","3","4","5","6","7","8","9"}
UpperSet == {UpperChars[i] : i \in 1..26}
SpaceChars == {" ", "\n"}

\* String.prototype.toUpperCase on one (ASCII) character
ToUpperChar(c) ==
    IF \E i \in 1..26 : LowerChars[i] = c
    THEN UpperChars[CHOOSE i \in 1..26 : LowerChars[i] = c]
    ELSE c

MapUpper(s) == [i \in 1..Len(s) |-> ToUpperChar(s[i])]

IsAlnumUpper(c) == c \in UpperSet \cup DigitChars
IsDigit(c) == c \in DigitChars

Drop(s, n) == SubSeq(s, n + 1, Len(s))
Take(s, n) == SubSeq(s, 1, n)

startsWith(s, p) == Len(s) >= Len(p) /\ Take(s, Len(p)) = p
endsWith(s, p) == Len(s) >= Len(p) /\ Drop(s, Len(s) - Len(p)) = p

\* String.prototype.includes
includes(s, p) ==
    \E i \in 0..(Len(s) - Len(p)) : SubSeq(s, i + 1, i + Len(p)) = p

\* String.prototype.trim (whitespace of the model alphabet is the blank)
RECURSIVE TrimLeft(_)
TrimLeft(s) ==
    IF s # <<>> /\ Head(s) \in SpaceChars THEN TrimLeft(Tail(s)) ELSE s

RECURSIVE TrimRight(_)
TrimRight(s) ==
    IF s # <<>> /\ s[Len(s)] \in SpaceChars
    THEN TrimRight(Take(s, Len(s) - 1)) ELSE s

trim(s) == TrimRight(TrimLeft(s))

----------------------------------------------------------------------------
(* Normalisers, src/pages/upload.js:355-398                                *)

tLLC == <<"L","L","C">>
tINC == <<"I","N","C">>
tLTD == <<"L","T","D">>
tCORP == <<"C","O","R","P">>
tCORPORATION == <<"C","O","R","P","O","R","A","T","I","O","N">>
tLLP == <<"L","L","P">>
tPLC == <<"P","L","C">>
tLP == <<"L","P">>
tMODEL == <<"M","O","D","E","L">>
tMOD == <<"M","O","D">>
tMDL == <<"M","D","L">>
tFIREARM == <<"F","I","R","E","A","R","M">>
tFIREARMS == <<"F","I","R","E","A","R","M","S">>
tWEAPON == <<"W","E","A","P","O","N">>
tWEAPONS == <<"W","E","A","P","O","N","S">>
tCALIBER == <<"C","A","L","I","B","E","R">>
tCAL == <<"C","A","L">>

\* faulty variant: the replace is not global, only the first character
\* outside A-Z0-9 is deleted
norm_FirstOnly(s) ==
    LET u == MapUpper(s)
        bad == {i \in 1..Len(u) : ~IsAlnumUpper(u[i])}
    IN  IF bad = {} THEN u
        ELSE LET k == CHOOSE i \in bad : \A j \in bad : i <= j
             IN  Take(u, k - 1) \o Drop(u, k)

\* norm: upper-case, then delete every character outside A-Z0-9
norm(s) == SelectSeq(MapUpper(s), IsAlnumUpper)

\* normDigits: delete every non-digit
normDigits(s) == SelectSeq(s, IsDigit)

\* strip0: delete the leading run of zeros
RECURSIVE strip0(_)
strip0(s) == IF s # <<>> /\ Head(s) = "0" THEN strip0(Tail(s)) ELSE s

\* s.replace(/^(p1|p2|...)/, ""): the first alternative that is a prefix
RECURSIVE StripPrefixAlt(_, _)
StripPrefixAlt(s, alts) ==
    IF alts = <<>> THEN s
    ELSE IF startsWith(s, Head(alts)) THEN Drop(s, Len(Head(alts)))
    ELSE StripPrefixAlt(s, Tail(alts))

\* s.replace(/(p1|p2|...)$/, ""): the match that starts leftmost, i.e. the
\* longest alternative that is a suffix (ties: the earlier alternative)
SuffixAlts(s, alts) == {i \in 1..Len(alts) : endsWith(s, alts[i])}
StripSuffixAlt(s, alts) ==
    IF SuffixAlts(s, alts) = {} THEN s
    ELSE LET i == CHOOSE i \in SuffixAlts(s, alts) :
                    \A j \in SuffixAlts(s, alts) :
                        \/ Len(alts[i]) > Len(alts[j])
                        \/ (Len(alts[i]) = Len(alts[j]) /\ i <= j)
         IN  Take(s, Len(s) - Len(alts[i]))

\* s.replace(/(p1|p2|...)/g, ""): one left-to-right pass; at each position
\* the first alternative that matches is removed, the result is not rescanned
RECURSIVE RemoveAllAlt(_, _)
FirstPrefixAlt(s, alts) ==
    LET hits == {i \in 1..Len(alts) : startsWith(s, alts[i])}
    IN  IF hits = {} THEN 0 ELSE CHOOSE i \in hits : \A j \in hits : i <= j
RemoveAllAlt(s, alts) ==
    IF s = <<>> THEN <<>>
    ELSE LET i == FirstPrefixAlt(s, alts)
         IN  IF i # 0 THEN RemoveAllAlt(Drop(s, Len(alts[i])), alts)
             ELSE <<Head(s)>> \o RemoveAllAlt(Tail(s), alts)

normModel(s) ==
    LET base == norm(s)
    IN  IF base = <<>> THEN <<>>
        ELSE StripPrefixAlt(base, <<tMODEL, tMOD, tMDL>>)

suffixes == <<tLLC, tINC, tLTD, tCORP, tCORPORATION, tLLP, tPLC, tLP>>

\* faulty variant: no outer loop, a single suffix is stripped
StripSuffixes_Once(trimmed) ==
    LET hits == {i \in 1..Len(suffixes) :
                    /\ endsWith(trimmed, suffixes[i])
                    /\ Len(trimmed) > Len(suffixes[i]) + 2}
    IN  IF hits = {} THEN trimmed
        ELSE LET i == CHOOSE i \in hits : \A j \in hits : i <= j
             IN  Take(trimmed, Len(trimmed) - Len(suffixes[i]))

\* the while/for loop of normManufacturer: strip the first suffix of the list
\* that ends the token and leaves more than two characters, and start over
RECURSIVE StripSuffixes(_)
StripSuffixes(trimmed) ==
    LET hits == {i \in 1..Len(suffixes) :
                    /\ endsWith(trimmed, suffixes[i])
                    /\ Len(trimmed) > Len(suffixes[i]) + 2}
    IN  IF hits = {} THEN trimmed
        ELSE LET i == CHOOSE i \in hits : \A j \in hits : i <= j
             IN  StripSuffixes(Take(trimmed, Len(trimmed) - Len(suffixes[i])))

\* faulty variant: the text is not upper-cased before the filtering
normManufacturer_CaseSensitive(s) ==
    LET base == SelectSeq(s, IsAlnumUpper)
    IN  IF base = <<>> THEN <<>> ELSE StripSuffixes(base)

normManufacturer(s) ==
    LET base == norm(s)
    IN  IF base = <<>> THEN <<>> ELSE StripSuffixes(base)

normType(s) ==
    LET base == norm(s)
    IN  IF base = <<>> THEN <<>>
        ELSE RemoveAllAlt(base, <<tFIREARM, tFIREARMS, tWEAPON, tWEAPONS>>)

\* faulty variant: /^0([0-9])/, one leading zero is dropped
TrimLeadingZero_Single(base) ==
    IF Len(base) >= 2 /\ base[1] = "0" /\ IsDigit(base[2])
    THEN Tail(base) ELSE base

\* base.replace(/^0+([0-9])/, "$1"): the leading zeros are dropped when a
\* digit follows them; a run of zeros followed by no digit keeps its last zero
LeadingZeros(s) == Len(s) - Len(strip0(s))
TrimLeadingZero(base) ==
    LET k == LeadingZeros(base)
    IN  IF k = 0 THEN base
        ELSE IF k < Len(base) /\ IsDigit(base[k + 1]) THEN Drop(base, k)
        ELSE IF k >= 2 THEN Drop(base, k - 1)
        ELSE base

normCaliber(s) ==
    LET base == norm(s)
    IN  IF base = <<>> THEN <<>>
        ELSE StripSuffixAlt(
                StripPrefixAlt(TrimLeadingZero(base), <<tCALIBER, tCAL>>),
                <<tCALIBER, tCAL>>)

ContainLen == 3

\* the normaliser a field comparator is built with
Normalize(normalizer, s) ==
    CASE normalizer = "normManufacturer" -> normManufacturer(s)
      [] normalizer = "normModel" -> normModel(s)
      [] normalizer = "normType" -> normType(s)
      [] normalizer = "normCaliber" -> normCaliber(s)
      [] OTHER -> norm(s)

\* faulty variant: containment is tried on tokens of any length
CompareTokens_NoLengthGuard(na, nb, allowContain) ==
    IF na = <<>> \/ nb = <<>> THEN na = nb
    ELSE IF na = nb THEN TRUE
    ELSE IF ~allowContain THEN FALSE
    ELSE includes(na, nb) \/ includes(nb, na)

\* the function returned by comparatorFactory, on normalised arguments
CompareTokens(na, nb, allowContain) ==
    IF na = <<>> \/ nb = <<>> THEN na = nb
    ELSE IF na = nb THEN TRUE
    ELSE IF ~allowContain THEN FALSE
    ELSE IF Len(na) < ContainLen \/ Len(nb) < ContainLen THEN FALSE
    ELSE includes(na, nb) \/ includes(nb, na)

\* comparatorFactory(normalizer, {allowContain})(a, b)
comparatorFactory(normalizer, allowContain, a, b) ==
    CompareTokens(Normalize(normalizer, a), Normalize(normalizer, b),
                  allowContain)

\* FIELD_COMPARATORS: the normaliser and allowContain option of each field
FIELD_COMPARATORS ==
    [manufacturer |-> [normalizer |-> "normManufacturer", allowContain |-> FALSE],
     model |-> [normalizer |-> "normModel", allowContain |-> TRUE],
     type |-> [normalizer |-> "normType", allowContain |-> TRUE],
     caliber |-> [normalizer |-> "normCaliber", allowContain |-> TRUE],
     importer |-> [normalizer |-> "norm", allowContain |-> FALSE],
     country |-> [normalizer |-> "norm", allowContain |-> FALSE]]

----------------------------------------------------------------------------
(* Header aliases and pickField, src/pages/upload.js:424-453               *)

Null == "null"

\* every header the model uses, with its toLowerCase and toUpperCase forms
HeaderCase == {
    <<"UPC", "upc", "UPC">>, <<"upc", "upc", "UPC">>, <<"Upc", "upc", "UPC">>,
    <<"EAN", "ean", "EAN">>, <<"ean", "ean", "EAN">>,
    <<"Barcode", "barcode", "BARCODE">>, <<"barcode", "barcode", "BARCODE">>,
    <<"BARCODE", "barcode", "BARCODE">>,
    <<"Manufacturer", "manufacturer", "MANUFACTURER">>,
    <<"manufacturer", "manufacturer", "MANUFACTURER">>,
    <<"MANUFACTURER", "manufacturer", "MANUFACTURER">>,
    <<"MFR", "mfr", "MFR">>, <<"mfr", "mfr", "MFR">>, <<"Mfr", "mfr", "MFR">>,
    <<"Brand", "brand", "BRAND">>, <<"brand", "brand", "BRAND">>,
    <<"BRAND", "brand", "BRAND">>,
    <<"Maker", "maker", "MAKER">>, <<"maker", "maker", "MAKER">>,
    <<"MAKER", "maker", "MAKER">>,
    <<"Model", "model", "MODEL">>, <<"model", "model", "MODEL">>,
    <<"MODEL", "model", "MODEL">>,
    <<"Type", "type", "TYPE">>, <<"type", "type", "TYPE">>,
    <<"TYPE", "type", "TYPE">>,
    <<"Category", "category", "CATEGORY">>,
    <<"category", "category", "CATEGORY">>,
    <<"CATEGORY", "category", "CATEGORY">>,
    <<"Caliber", "caliber", "CALIBER">>, <<"caliber", "caliber", "CALIBER">>,
    <<"CALIBER", "caliber", "CALIBER">>,
    <<"Cal", "cal", "CAL">>, <<"cal", "cal", "CAL">>, <<"CAL", "cal", "CAL">>,
    <<"Importer", "importer", "IMPORTER">>,
    <<"importer", "importer", "IMPORTER">>,
    <<"IMPORTER", "importer", "IMPORTER">>,
    <<"Country of Manufacture", "country of manufacture",
      "COUNTRY OF MANUFACTURE">>,
    <<"country of manufacture", "country of manufacture",
      "COUNTRY OF MANUFACTURE">>,
    <<"COUNTRY OF MANUFACTURE", "country of manufacture",
      "COUNTRY OF MANUFACTURE">>,
    <<"Country", "country", "COUNTRY">>, <<"country", "country", "COUNTRY">>,
    <<"COUNTRY", "country", "COUNTRY">>,
    <<"CountryOfManufacture", "countryofmanufacture", "COUNTRYOFMANUFACTURE">>,
    <<"countryofmanufacture", "countryofmanufacture", "COUNTRYOFMANUFACTURE">>,
    <<"COUNTRYOFMANUFACTURE", "countryofmanufacture", "COUNTRYOFMANUFACTURE">>,
    <<"Status", "status", "STATUS">>, <<"status", "status", "STATUS">>,
    <<"STATUS", "status", "STATUS">>,
    <<"Notes", "notes", "NOTES">>, <<"SKU", "sku", "SKU">> }

toLowerCase(h) == (CHOOSE t \in HeaderCase : t[1] = h)[2]
toUpperCase(h) == (CHOOSE t \in HeaderCase : t[1] = h)[3]

ALIAS == [
    upc |-> <<"UPC", "upc", "Upc", "EAN", "ean", "Barcode", "barcode">>,
    manufacturer |-> <<"Manufacturer", "manufacturer", "MFR", "mfr",
                       "Brand", "brand", "Maker", "maker">>,
    model |-> <<"Model", "model">>,
    type |-> <<"Type", "type", "Category", "category">>,
    caliber |-> <<"Caliber", "caliber", "Cal", "cal">>,
    importer |-> <<"Importer", "importer">>,
    country |-> <<"Country of Manufacture", "Country", "country",
                  "CountryOfManufacture">> ]

\* row[h]; a missing property reads as absent
Cell(row, h) == IF h \in DOMAIN row THEN row[h] ELSE <<>>

hasValue(v) == trim(v) # <<>>

\* pickField(row, names): first alias, in the casings as-given, lower, upper,
\* under which the row holds a non-blank value
RECURSIVE pickField(_, _)
pickField(row, names) ==
    IF names = <<>> THEN [value |-> <<>>, key |-> Null]
    ELSE LET n == Head(names)
             candidates == <<n, toLowerCase(n), toUpperCase(n)>>
             hits == {i \in 1..3 : hasValue(Cell(row, candidates[i]))}
         IN  IF hits # {}
             THEN LET i == CHOOSE i \in hits : \A j \in hits : i <= j
                  IN  [value |-> row[candidates[i]], key |-> candidates[i]]
             ELSE pickField(row, Tail(names))

firstVal(row, names) == pickField(row, names).value

----------------------------------------------------------------------------
(* Per-row verification: the callback of rows.map in verifyData,           *)
(* src/pages/upload.js:554-847.                                            *)
(*                                                                         *)
(* A Status text `KIND <emoji> (a, b)` is the record [kind, detail] with   *)
(* detail the sequence of the labels between the parentheses.  A JS Map    *)
(* of arrays is the sequence of its [key, row] insertions; MapGet reads    *)
(* the array of one key.  A `a::b::c::d` key is the tuple <<a, b, c, d>>   *)
(* (normalised tokens hold no colon, so the join is injective).            *)
(* Besides the fields of the result object (cols, Status, meta) a result   *)
(* records the locals candidateSource, best and the branch taken (path),   *)
(* so that properties can speak about the comparison target.               *)

MapGet(map, k) ==
    LET sel == SelectSeq(map, LAMBDA e : e.key = k)
    IN  [i \in 1..Len(sel) |-> sel[i].row]

CanonicalCols ==
    {"UPC", "Manufacturer", "Model", "Type", "Caliber", "Importer", "Country"}
ReservedLower ==
    {"upc", "manufacturer", "model", "type", "caliber", "importer",
     "country", "status"}

coreKeys == <<"manufacturer", "model", "type", "caliber">>
CoreKeySet == {"manufacturer", "model", "type", "caliber"}
toCanonical ==
    [manufacturer |-> "Manufacturer", model |-> "Model",
     type |-> "Type", caliber |-> "Caliber"]
KeyOfLabel(l) == CHOOSE k \in CoreKeySet : toCanonical[k] = l

normalizeCell(val) == trim(val)

\* faulty variant: expected and actual are exchanged
collectMeta_Swapped(pick, expectedValue, reason) ==
    [state |-> "mismatch",
     expected |-> trim(pick.value),
     actual |-> trim(expectedValue),
     reason |-> reason]

collectMeta(pick, expectedValue, reason) ==
    [state |-> "mismatch",
     expected |-> trim(expectedValue),
     actual |-> trim(pick.value),
     reason |-> reason]

\* faulty variant: a blank actual value never conflicts
CompareCells_BlankActualMatches(actualStr, expectedStr, comparator) ==
    IF /\ actualStr # <<>>
       /\ expectedStr # <<>>
       /\ ~comparatorFactory(comparator.normalizer, comparator.allowContain,
                             actualStr, expectedStr)
    THEN [match |-> FALSE, reason |-> <<"Expected", expectedStr>>,
          actualStr |-> actualStr, expectedStr |-> expectedStr]
    ELSE [match |-> TRUE, reason |-> <<>>,
          actualStr |-> actualStr, expectedStr |-> expectedStr]

\* the body of compareField on the trimmed cells
CompareCells(actualStr, expectedStr, comparator) ==
    IF actualStr = <<>> /\ expectedStr # <<>>
    THEN [match |-> FALSE, reason |-> <<"Missing value">>,
          actualStr |-> actualStr, expectedStr |-> expectedStr]
    ELSE IF /\ actualStr # <<>>
            /\ expectedStr # <<>>
            /\ ~comparatorFactory(comparator.normalizer,
                                  comparator.allowContain,
                                  actualStr, expectedStr)
    THEN [match |-> FALSE, reason |-> <<"Expected", expectedStr>>,
          actualStr |-> actualStr, expectedStr |-> expectedStr]
    ELSE [match |-> TRUE, reason |-> <<>>,
          actualStr |-> actualStr, expectedStr |-> expectedStr]

\* compareField(actual, expected, comparator)
compareField(actual, expected, comparator) ==
    CompareCells(normalizeCell(actual), normalizeCell(expected), comparator)

normalizedCoreOf(m, mo, t, c) ==
    [manufacturer |-> normManufacturer(m), model |-> normModel(mo),
     type |-> normType(t), caliber |-> normCaliber(c)]

comboKeyOf(nc) == <<nc.manufacturer, nc.model, nc.type, nc.caliber>>
\* faulty variant: the fallback key leaves the model out
manufacturerModelKeyOf_ManufacturerOnly(nc) == <<nc.manufacturer>>
manufacturerModelKeyOf(nc) == <<nc.manufacturer, nc.model>>

\* the normalised core attributes of a catalog row
CoreOfCatalogRow(row) ==
    normalizedCoreOf(row.manufacturer, row.model, row.type, row.caliber)

\* matchesCore(row) for the upload row's normalizedCore
matchesCore(normalizedCore, row) == normalizedCore = CoreOfCatalogRow(row)

\* the labels of the core keys in ks, in the order of coreKeys
LabelsOf(ks) ==
    LET sel == SelectSeq(coreKeys, LAMBDA k : k \in ks)
    IN  [i \in 1..Len(sel) |-> toCanonical[sel[i]]]

Status(kind, detail) == [kind |-> kind, detail |-> detail]

Result(cols, status, meta, candidateSource, best, path) ==
    [cols |-> cols, Status |-> status, meta |-> meta,
     candidateSource |-> candidateSource, best |-> best, path |-> path]

\* the core fields of the upload row (picks) that compare equal to row
MatchingKeys(picks, row) ==
    {k \in CoreKeySet :
        compareField(picks[k].value, row[k], FIELD_COMPARATORS[k]).match}

\* faulty variant: only the first flagged field is annotated
MetaFor_FirstOnly(picks, ks, referenceRow, reason) ==
    [l \in {toCanonical[k] : k \in
                {k \in ks : LabelsOf({k})[1] = LabelsOf(ks)[1]}} |->
        collectMeta(picks[KeyOfLabel(l)], referenceRow[KeyOfLabel(l)], reason)]

\* annotateFields / the collectMeta loops: one entry per flagged core field
MetaFor(picks, ks, referenceRow, reason) ==
    [l \in {toCanonical[k] : k \in ks} |->
        collectMeta(picks[KeyOfLabel(l)], referenceRow[KeyOfLabel(l)], reason)]

BlankRow == [k \in CoreKeySet |-> <<>>]
EmptyMeta == [l \in {} |-> l]

\* status and meta of a field-by-field comparison against one catalog row
NotVerifiedOr(verified, ks) ==
    IF ks = {} THEN Status("VERIFIED", <<verified>>)
    ELSE Status("NOT VERIFIED", LabelsOf(ks))

\* lines 666-721: no candidate; manufacturer+model fallback, else UNKNOWN
FallbackResult(baseRow, picks, fallbackCandidates, mismatched) ==
    Result(baseRow, NotVerifiedOr("ATF match", mismatched),
           MetaFor(picks, mismatched, fallbackCandidates[1],
                   "Catalog value differs"),
           "none", <<>>, "fallback")

NoCandidates(baseRow, picks, fallbackCandidates) ==
    IF fallbackCandidates # <<>>
    THEN FallbackResult(baseRow, picks, fallbackCandidates,
            {k \in CoreKeySet :
                ~\E i \in 1..Len(fallbackCandidates) :
                    k \in MatchingKeys(picks, fallbackCandidates[i])})
    ELSE Result(baseRow, Status("UNKNOWN", <<"No catalog match">>),
                MetaFor(picks, CoreKeySet, BlankRow,
                        "No catalog record matched these normalized fields"),
                "none", <<>>, "unknown")

\* lines 739-775: the row is compared with one identifier candidate
CompareWithBest(baseRow, picks, best, mismatched) ==
    Result(baseRow, NotVerifiedOr("UPC & ATF match", mismatched),
           MetaFor(picks, mismatched, best, "Catalog value differs"),
           "upc", <<best>>, "upc")

\* faulty variant: the first identifier candidate is always the target
BestOf_First(exactMatches, upcCandidates) == upcCandidates[1]

\* exactMatch ?? upcCandidates[0]
BestOf(exactMatches, upcCandidates) ==
    IF exactMatches # <<>> THEN exactMatches[1] ELSE upcCandidates[1]

UpcMatch(baseRow, picks, best) ==
    CompareWithBest(baseRow, picks, best, CoreKeySet \ MatchingKeys(picks, best))

\* lines 820-846: the candidate with the most matching core fields (the sort
\* is stable, so the first of the best)
BestPartialIndex(counts) ==
    CHOOSE i \in DOMAIN counts :
        \A j \in DOMAIN counts :
            counts[i] > counts[j] \/ (counts[i] = counts[j] /\ i <= j)

PartialResult(baseRow, picks, bestPartial, matchingKeys) ==
    Result(baseRow,
           IF CoreKeySet \ matchingKeys # {}
           THEN Status("NOT VERIFIED", LabelsOf(CoreKeySet \ matchingKeys))
           ELSE Status("NOT VERIFIED",
                       <<"Manufacturer", "Model", "Type", "Caliber">>),
           MetaFor(picks, CoreKeySet \ matchingKeys, bestPartial,
                   IF Cardinality(matchingKeys) > 0
                   THEN "Closest catalog match differs"
                   ELSE "No catalog match"),
           "atf", <<bestPartial>>, "partial")

PartialMatch(baseRow, picks, bestPartial) ==
    PartialResult(baseRow, picks, bestPartial, MatchingKeys(picks, bestPartial))

BestPartial(picks, candidates) ==
    candidates[BestPartialIndex(
        [i \in 1..Len(candidates) |->
            Cardinality(MatchingKeys(picks, candidates[i]))])]

\* faulty variant: an attribute match counts only when it is unique
AtfMatch_ExactlyOne(baseRow, upcPick, picks, candidates, exactMatches, upcMissingButAtfFallback) ==
    IF Len(exactMatches) = 1
    THEN IF upcMissingButAtfFallback
         THEN Result(baseRow,
                Status("NOT VERIFIED", <<"ATF match, UPC unknown">>),
                [l \in {"UPC"} |->
                    collectMeta(upcPick, <<>>,
                        "UPC not found in catalog; matched by ATF fields")],
                "atf", <<>>, "atf")
         ELSE Result(baseRow, Status("VERIFIED", <<"ATF match">>),
                     EmptyMeta, "atf", <<>>, "atf")
    ELSE PartialMatch(baseRow, picks, BestPartial(picks, candidates))

\* lines 777-846: attribute-only validation
AtfMatch(baseRow, upcPick, picks, candidates, exactMatches, upcMissingButAtfFallback) ==
    IF Len(exactMatches) >= 1
    THEN IF upcMissingButAtfFallback
         THEN Result(baseRow,
                Status("NOT VERIFIED", <<"ATF match, UPC unknown">>),
                [l \in {"UPC"} |->
                    collectMeta(upcPick, <<>>,
                        "UPC not found in catalog; matched by ATF fields")],
                "atf", <<>>, "atf")
         ELSE Result(baseRow, Status("VERIFIED", <<"ATF match">>),
                     EmptyMeta, "atf", <<>>, "atf")
    ELSE PartialMatch(baseRow, picks, BestPartial(picks, candidates))

\* faulty variant: upcMissingButAtfFallback forgets to test d
Decide_AtfAlwaysUpcUnknown(baseRow, upcPick, picks, d, candidateSource, candidates, exactMatches, fallbackCandidates) ==
    IF candidates = <<>>
    THEN NoCandidates(baseRow, picks, fallbackCandidates)
    ELSE IF d # <<>> /\ candidateSource = "upc"
    THEN UpcMatch(baseRow, picks, BestOf(exactMatches, candidates))
    ELSE AtfMatch(baseRow, upcPick, picks, candidates, exactMatches,
                  candidateSource = "atf")

\* lines 666-846 once candidates and candidateSource are settled
Decide(baseRow, upcPick, picks, d, candidateSource, candidates, exactMatches, fallbackCandidates) ==
    IF candidates = <<>>
    THEN NoCandidates(baseRow, picks, fallbackCandidates)
    ELSE IF d # <<>> /\ candidateSource = "upc"
    THEN UpcMatch(baseRow, picks, BestOf(exactMatches, candidates))
    ELSE AtfMatch(baseRow, upcPick, picks, candidates, exactMatches,
                  d # <<>> /\ candidateSource = "atf")

\* lines 627-642: candidates and candidateSource
CandidateSource(d, upcCandidates, coreCandidates) ==
    IF d # <<>> /\ upcCandidates # <<>> THEN "upc"
    ELSE IF coreCandidates # <<>> THEN "atf"
    ELSE "none"

Candidates(d, upcCandidates, coreCandidates) ==
    IF d # <<>> /\ upcCandidates # <<>> THEN upcCandidates
    ELSE IF coreCandidates # <<>> THEN coreCandidates
    ELSE <<>>

ExactMatches(normalizedCore, candidates) ==
    SelectSeq(candidates, LAMBDA row : matchesCore(normalizedCore, row))

Resolve(baseRow, upcPick, picks, d, normalizedCore, candidateSource, candidates, fallbackCandidates) ==
    Decide(baseRow, upcPick, picks, d, candidateSource, candidates,
           ExactMatches(normalizedCore, candidates), fallbackCandidates)

Lookup(baseRow, upcPick, picks, d, normalizedCore, upcCandidates, coreCandidates, fallbackCandidates) ==
    Resolve(baseRow, upcPick, picks, d, normalizedCore,
            CandidateSource(d, upcCandidates, coreCandidates),
            Candidates(d, upcCandidates, coreCandidates),
            fallbackCandidates)

WithCore(baseRow, upcPick, picks, d, normalizedCore, uMap, atfMap, mmMap) ==
    Lookup(baseRow, upcPick, picks, d, normalizedCore,
           IF d # <<>> THEN MapGet(uMap, d) ELSE <<>>,
           MapGet(atfMap, comboKeyOf(normalizedCore)),
           MapGet(mmMap, manufacturerModelKeyOf(normalizedCore)))

\* faulty variant: only the canonical columns are kept
BaseRow_CanonicalOnly(r, upcPick, picks) ==
    [h \in CanonicalCols |->
        CASE h = "UPC" -> upcPick.value
          [] h = "Manufacturer" -> picks.manufacturer.value
          [] h = "Model" -> picks.model.value
          [] h = "Type" -> picks.type.value
          [] h = "Caliber" -> picks.caliber.value
          [] h = "Importer" -> picks.importer.value
          [] OTHER -> picks.country.value]

\* lines 573-597: canonical columns first, then every column of the row
\* whose lower-cased name is not reserved
BaseRow(r, upcPick, picks) ==
    [h \in CanonicalCols \cup
           {k \in DOMAIN r : toLowerCase(k) \notin ReservedLower} |->
        CASE h = "UPC" -> upcPick.value
          [] h = "Manufacturer" -> picks.manufacturer.value
          [] h = "Model" -> picks.model.value
          [] h = "Type" -> picks.type.value
          [] h = "Caliber" -> picks.caliber.value
          [] h = "Importer" -> picks.importer.value
          [] h = "Country" -> picks.country.value
          [] OTHER -> r[h]]

NormalizedCoreOfPicks(picks) ==
    normalizedCoreOf(picks.manufacturer.value, picks.model.value,
                     picks.type.value, picks.caliber.value)

Picked(r, upcPick, picks, uMap, atfMap, mmMap) ==
    WithCore(BaseRow(r, upcPick, picks), upcPick, picks,
             normDigits(upcPick.value), NormalizedCoreOfPicks(picks),
             uMap, atfMap, mmMap)

\* lines 555-561
PicksOf(r) ==
    [manufacturer |-> pickField(r, ALIAS.manufacturer),
     model |-> pickField(r, ALIAS.model),
     type |-> pickField(r, ALIAS.type),
     caliber |-> pickField(r, ALIAS.caliber),
     importer |-> pickField(r, ALIAS.importer),
     country |-> pickField(r, ALIAS.country)]

\* the callback of rows.map
VerifyRow(r, uMap, atfMap, mmMap) ==
    Picked(r, pickField(r, ALIAS.upc), PicksOf(r), uMap, atfMap, mmMap)

----------------------------------------------------------------------------
(* Bounds and input vocabularies                                           *)

MaxCatalog == 2     \* records in the catalog table
MaxRows == 2        \* rows of an uploaded file (session specification)
MaxLoads == 1       \* file selections in one session
pageSize == 2       \* page of the full scan (1000 in the code, scaled down)
UpcLimit == 10000   \* .limit(10000) of the identifier fetch
PreviewMax == 10    \* entries kept in the debug previews

Min(a, b) == IF a <= b THEN a ELSE b

u12 == <<"1","2">>
u012 == <<"0","1","2">>
u0d12 == <<"0","-","1","2">>
u7 == <<"7">>
mAcme == <<"A","c","m","e">>
mAcmeInc == <<"A","c","m","e"," ","I","n","c">>
mBolt == <<"B","o","l","t">>
moX1 == <<"X","1">>
moX2 == <<"X","2">>
moModelX1 == <<"M","o","d","e","l"," ","X","1">>
tyPistol == <<"P","i","s","t","o","l">>
tyRifle == <<"R","i","f","l","e">>
c9 == <<"9","m","m">>
c9pad == <<"9","m","m"," ">>
c9Luger == <<"9","m","m"," ","L","u","g","e","r">>
c40 == <<"4","0">>
iA == <<"I","A">>
iB == <<"I","B">>
coUS == <<"U","S">>
nNote == <<"n","1">>

CatRec(u, m, mo, t, c, im, co) ==
    [upc |-> u, manufacturer |-> m, model |-> mo, type |-> t,
     caliber |-> c, importer |-> im, country |-> co]

\* catalog records: two pairs sharing an identifier, one identifier with a
\* leading zero, a padded value, a record with a blank caliber
CatalogVocab == {
    CatRec(u12, mAcmeInc, moX1, tyPistol, c9pad, iA, coUS),
    CatRec(u12, mAcme, moX2, tyPistol, c40, <<>>, <<>>),
    CatRec(u012, mAcme, moModelX1, tyPistol, c9Luger, iA, coUS),
    CatRec(u012, mAcme, moX1, tyRifle, c9, <<>>, coUS),
    CatRec(<<>>, mAcme, moX1, tyPistol, <<>>, <<>>, <<>>),
    CatRec(<<>>, mAcme, moX1, tyRifle, c40, <<>>, <<>>) }

SeqsUpTo(S, n) == UNION {[1..k -> S] : k \in 0..n}

Catalogs == SeqsUpTo(CatalogVocab, MaxCatalog)

\* catalogs of the session specification: a record found by identifier and a
\* record found by its attributes
SessionCatalogVocab == {
    CatRec(u12, mAcmeInc, moX1, tyPistol, c9pad, iA, coUS),
    CatRec(<<>>, mAcme, moX1, tyRifle, c40, <<>>, <<>>) }

SessionCatalogs == SeqsUpTo(SessionCatalogVocab, MaxCatalog)

UploadRow(u, m, mo, t, c, im, co) ==
    [h \in CanonicalCols |->
        CASE h = "UPC" -> u
          [] h = "Manufacturer" -> m
          [] h = "Model" -> mo
          [] h = "Type" -> t
          [] h = "Caliber" -> c
          [] h = "Importer" -> im
          [] OTHER -> co]

\* single-row files over the full attribute vocabulary
MatchRows ==
    {UploadRow(u, m, moX1, tyPistol, c, im, coUS) :
        u \in {<<>>, u0d12, u12, u7}, m \in {mAcme, mBolt},
        c \in {<<>>, c9, c40}, im \in {<<>>, iB}}
MatchFiles == {<<r>> : r \in MatchRows}

\* files of the session specification: up to MaxRows rows, with aliases and
\* a pass-through column
SessionRows == {
    [h \in {"upc", "MFR", "Model", "Type", "Cal", "Notes"} |->
        CASE h = "upc" -> u12 [] h = "MFR" -> mAcmeInc [] h = "Model" -> moX1
          [] h = "Type" -> tyPistol [] h = "Cal" -> c9 [] OTHER -> nNote],
    [h \in {"Manufacturer", "Model", "Type", "Caliber"} |->
        CASE h = "Manufacturer" -> mAcme [] h = "Model" -> moX1
          [] h = "Type" -> tyRifle [] OTHER -> c40] }
SessionFiles == SeqsUpTo(SessionRows, MaxRows)

----------------------------------------------------------------------------
(* The page as a state machine                                             *)

\* debugInfo is null, or holds one record
NoDebugInfo == <<>>

NoError == ""
ParseError == "parse error"
FetchError == "fetch error"

\* nothing has been downloaded yet
NoDownload == <<>>

\* the initial value of activeStatusFilters, which resetStatusFilters restores
AllStatusFilters == <<"VERIFIED", "NOT VERIFIED", "UNKNOWN">>

\* no helper has been applied yet
NoCall == [fn |-> "none", args |-> <<>>, ret |-> <<>>, again |-> FALSE]

\* the page after mounting: the initial values of its state
InitPage ==
    /\ rows = <<>>
    /\ results = <<>>
    /\ loading = FALSE
    /\ error = NoError
    /\ debugInfo = NoDebugInfo
    /\ pc = "idle"
    /\ runRows = <<>>
    /\ upcKeys = {}
    /\ upcMap = <<>>
    /\ atfCandidateMap = <<>>
    /\ atfManufacturerModelMap = <<>>
    /\ catalogUpc = <<>>
    /\ from = 0
    /\ loads = 0
    /\ download = NoDownload
    /\ call = NoCall
    /\ activeStatusFilters = AllStatusFilters

Init ==
    /\ catalog \in Catalogs
    /\ InitPage

InitSession ==
    /\ catalog \in SessionCatalogs
    /\ InitPage

runLocals == <<runRows, upcKeys, upcMap, atfCandidateMap,
               atfManufacturerModelMap, catalogUpc, from>>

\* the locals of verifyData vanish when it returns
ClearLocals ==
    /\ runRows' = <<>>
    /\ upcKeys' = {}
    /\ upcMap' = <<>>
    /\ atfCandidateMap' = <<>>
    /\ atfManufacturerModelMap' = <<>>
    /\ catalogUpc' = <<>>
    /\ from' = 0

\* handleFile, Papa.parse complete callback: setRows(res.data || [])
HandleFileComplete(files, maxLoads) ==
    /\ loads < maxLoads
    /\ \E f \in files : rows' = f
    /\ loads' = loads + 1
    /\ UNCHANGED <<activeStatusFilters, call, download, catalog, results, loading, error, debugInfo, pc, runLocals>>

\* handleFile, Papa.parse error callback: setError(err.message)
HandleFileError(maxLoads) ==
    /\ loads < maxLoads
    /\ error' = ParseError
    /\ loads' = loads + 1
    /\ UNCHANGED <<activeStatusFilters, call, download, catalog, rows, results, loading, debugInfo, pc, runLocals>>

\* the identifier keys collected from the rows (upcKeys)
UpcKeysOf(rs) ==
    {normDigits(firstVal(rs[i], ALIAS.upc)) : i \in 1..Len(rs)} \ {<<>>}

\* click on Run Verification (enabled while rows is non-empty and loading is
\* false): verifyData up to its first await
StartVerify ==
    /\ Len(rows) # 0
    /\ ~loading
    /\ loading' = TRUE
    /\ error' = NoError
    /\ debugInfo' = NoDebugInfo
    /\ runRows' = rows
    /\ upcKeys' = UpcKeysOf(rows)
    /\ pc' = IF UpcKeysOf(rows) # {} THEN "upcFetch" ELSE "scan"
    /\ from' = 0
    /\ UNCHANGED <<activeStatusFilters, call, download, catalog, rows, results, upcMap, atfCandidateMap,
                   atfManufacturerModelMap, catalogUpc, loads>>

\* supabase.from("catalog").select(..).in("upc", keys).limit(10000)
FetchByUpc(keys) ==
    LET hit == SelectSeq(catalog, LAMBDA rec : rec.upc \in keys)
    IN  Take(hit, Min(Len(hit), UpcLimit))

\* the loop that fills upcMap from catalogUpc
BuildUpcMap(data) ==
    LET kept == SelectSeq(data, LAMBDA cRow : normDigits(cRow.upc) # <<>>)
    IN  [i \in 1..Len(kept) |->
            [key |-> normDigits(kept[i].upc), row |-> kept[i]]]

\* the identifier fetch resolves with data
UpcFetchOk ==
    /\ pc = "upcFetch"
    /\ catalogUpc' = FetchByUpc(upcKeys)
    /\ upcMap' = BuildUpcMap(FetchByUpc(upcKeys))
    /\ pc' = "scan"
    /\ UNCHANGED <<activeStatusFilters, call, download, catalog, rows, results, loading, error, debugInfo, runRows,
                   upcKeys, atfCandidateMap, atfManufacturerModelMap, from,
                   loads>>

\* faulty variant: a failing run also empties results
FailRun_ClearsResults ==
    /\ error' = FetchError
    /\ loading' = FALSE
    /\ pc' = "idle"
    /\ ClearLocals
    /\ results' = <<>>
    /\ UNCHANGED <<activeStatusFilters, call, download, catalog, rows, debugInfo, loads>>

\* faulty variant: a failing run leaves loading set
FailRun_KeepsLoading ==
    /\ error' = FetchError
    /\ pc' = "idle"
    /\ ClearLocals
    /\ UNCHANGED <<activeStatusFilters, call, download, catalog, rows, results, loading,
                   debugInfo, loads>>

\* catch (e) { setError(..) } finally { setLoading(false) }
FailRun ==
    /\ error' = FetchError
    /\ loading' = FALSE
    /\ pc' = "idle"
    /\ ClearLocals
    /\ UNCHANGED <<activeStatusFilters, call, download, catalog, rows, results, debugInfo, loads>>

\* the identifier fetch resolves with an error
UpcFetchErr ==
    /\ pc = "upcFetch"
    /\ FailRun

\* faulty variant: a page starts one record late
FetchPage_SkipsFirst(offset) ==
    SubSeq(catalog, offset + 2, Min(offset + pageSize, Len(catalog)))

\* .range(from, from + pageSize - 1)
FetchPage(offset) ==
    SubSeq(catalog, offset + 1, Min(offset + pageSize, Len(catalog)))

\* faulty variant: the caliber is not tested
Indexable_CaliberUntested(row) ==
    /\ normManufacturer(row.manufacturer) # <<>>
    /\ normModel(row.model) # <<>>
    /\ normType(row.type) # <<>>

\* a catalog row enters the attribute indexes only with four non-empty
\* normalised core attributes
Indexable(row) ==
    /\ normManufacturer(row.manufacturer) # <<>>
    /\ normModel(row.model) # <<>>
    /\ normType(row.type) # <<>>
    /\ normCaliber(row.caliber) # <<>>

IndexAtf(map, pageData) ==
    LET kept == SelectSeq(pageData, Indexable)
    IN  map \o [i \in 1..Len(kept) |->
                  [key |-> comboKeyOf(CoreOfCatalogRow(kept[i])),
                   row |-> kept[i]]]

IndexManufacturerModel(map, pageData) ==
    LET kept == SelectSeq(pageData, Indexable)
    IN  map \o [i \in 1..Len(kept) |->
                  [key |-> manufacturerModelKeyOf(CoreOfCatalogRow(kept[i])),
                   row |-> kept[i]]]

\* faulty variant: the last row is left out
Checked_DropLast(rs, uMap, atfMap, mmMap) ==
    [i \in 1..(Len(rs) - 1) |-> VerifyRow(rs[i], uMap, atfMap, mmMap)]

\* rows.map(...) with the finished indexes
Checked(rs, uMap, atfMap, mmMap) ==
    [i \in 1..Len(rs) |-> VerifyRow(rs[i], uMap, atfMap, mmMap)]

UpcPreview(raw) ==
    [raw |-> raw, digits |-> normDigits(raw), strict |-> strip0(normDigits(raw))]

DebugInfoOf(rs, checked, uMap, cUpc) ==
    LET withUpc == SelectSeq(rs,
                     LAMBDA r : normDigits(firstVal(r, ALIAS.upc)) # <<>>)
    IN  [uploadPreview |->
            [i \in 1..Min(Len(withUpc), PreviewMax) |->
                UpcPreview(firstVal(withUpc[i], ALIAS.upc))],
         catalogPreview |->
            [i \in 1..Min(Len(cUpc), PreviewMax) |-> UpcPreview(cUpc[i].upc)],
         unknownUPCCount |->
            Cardinality({i \in 1..Len(checked) :
                /\ checked[i].Status.kind = "UNKNOWN"
                /\ normDigits(checked[i].cols["UPC"]) # <<>>}),
         duplicateCatalogUpcKeys |->
            Cardinality({k \in {uMap[i].key : i \in 1..Len(uMap)} :
                Len(MapGet(uMap, k)) > 1}),
         atfOnlyRows |->
            Cardinality({i \in 1..Len(rs) :
                normDigits(firstVal(rs[i], ALIAS.upc)) = <<>>})]

\* a full page arrives: index it and request the next one
ScanPageMore ==
    /\ pc = "scan"
    /\ Len(FetchPage(from)) = pageSize
    /\ atfCandidateMap' = IndexAtf(atfCandidateMap, FetchPage(from))
    /\ atfManufacturerModelMap' =
            IndexManufacturerModel(atfManufacturerModelMap, FetchPage(from))
    /\ from' = from + pageSize
    /\ UNCHANGED <<activeStatusFilters, call, download, catalog, rows, results, loading, error, debugInfo, pc,
                   runRows, upcKeys, upcMap, catalogUpc, loads>>

\* faulty variant: the new verdicts are appended to the displayed ones
FinishRun_Appends(checked) ==
    /\ results' = results \o checked
    /\ debugInfo' = <<DebugInfoOf(runRows, checked, upcMap, catalogUpc)>>
    /\ loading' = FALSE
    /\ pc' = "idle"
    /\ ClearLocals
    /\ UNCHANGED <<activeStatusFilters, call, download, catalog, rows, error, loads>>

\* setResults(checked), setDebugInfo(..), finally setLoading(false)
FinishRun(checked) ==
    /\ results' = checked
    /\ debugInfo' = <<DebugInfoOf(runRows, checked, upcMap, catalogUpc)>>
    /\ loading' = FALSE
    /\ pc' = "idle"
    /\ ClearLocals
    /\ UNCHANGED <<activeStatusFilters, call, download, catalog, rows, error, loads>>

\* an empty or short page arrives: index it, leave the loop, verify every
\* row and finish
ScanPageLast ==
    /\ pc = "scan"
    /\ Len(FetchPage(from)) < pageSize
    /\ FinishRun(Checked(runRows, upcMap,
            IndexAtf(atfCandidateMap, FetchPage(from)),
            IndexManufacturerModel(atfManufacturerModelMap, FetchPage(from))))

\* a page fetch resolves with an error
ScanPageErr ==
    /\ pc = "scan"
    /\ FailRun

\* a session: files are selected (up to MaxLoads times) and verification is
\* run, in any interleaving
Next ==
    \/ HandleFileComplete(SessionFiles, MaxLoads)
    \/ HandleFileError(MaxLoads)
    \/ StartVerify
    \/ UpcFetchOk
    \/ UpcFetchErr
    \/ ScanPageMore
    \/ ScanPageLast
    \/ ScanPageErr

Spec == InitSession /\ [][Next]_vars

\* one single-row file over the full attribute vocabulary is selected and
\* verified, possibly several times
NextMatch ==
    \/ HandleFileComplete(MatchFiles, 1)
    \/ StartVerify
    \/ UpcFetchOk
    \/ UpcFetchErr
    \/ ScanPageMore
    \/ ScanPageLast
    \/ ScanPageErr

SpecMatch == Init /\ [][NextMatch]_vars

TypeOK ==
    /\ pc \in {"idle", "upcFetch", "scan"}
    /\ loading \in BOOLEAN
    /\ error \in {NoError, ParseError, FetchError}
    /\ loads \in 0..(MaxLoads + 1)

----------------------------------------------------------------------------
(* Applications of the helper functions.  The helpers are pure; the state  *)
(* keeps the last application in `call`: the helper (fn), its arguments    *)
(* and what it returned.  A normaliser is applied to two texts at a time,  *)
(* so that two of its results can be compared.  The helpers keep no state  *)
(* (a later application returns what a first one does), so a behaviour     *)
(* applies one helper, and norm or normDigits once more to its own result. *)

MaxText == 3        \* length of the generated texts

\* generated texts: a lower-case and an upper-case letter, two digits (one
\* of them the zero), punctuation and a blank
NormAlphabet == {"a", "Z", "0", "7", "-", " "}
NormTexts == SeqsUpTo(NormAlphabet, MaxText)

\* manufacturer texts
mfAcmeCorpLLC == <<"A","c","m","e"," ","C","o","r","p"," ","L","L","C">>
mfAcmeCorpLLCDotted ==
    <<"A","C","M","E"," ","C","O","R","P",","," ","L",".","L",".","C",".">>
mfXcorpLLC == <<"X","C","O","R","P"," ","L","L","C">>
mfXCorp == <<"X"," ","C","o","r","p">>
mfAcme == <<"A","c","m","e">>
mfAcmeIncLower == <<"a","c","m","e"," ","i","n","c",".">>
mfABInc == <<"A","B"," ","I","n","c">>
mfInc == <<"I","n","c">>
mfAbcLLP == <<"A","B","C"," ","L","L","P">>
mfAbcLP == <<"A","b","c"," ","L","P">>
mfAcmeCorporation ==
    <<"A","c","m","e"," ","C","o","r","p","o","r","a","t","i","o","n">>
mfAcmeLtdPLC == <<"A","c","m","e"," ","L","t","d"," ","P","L","C">>
ManufacturerTexts == {
    <<>>, mfAcmeCorpLLC, mfAcmeCorpLLCDotted, mfXcorpLLC, mfXCorp, mfAcme,
    mfAcmeIncLower, mfABInc, mfInc, mfAbcLLP, mfAbcLP, mfAcmeCorporation,
    mfAcmeLtdPLC }

\* type texts
ttPistol == <<"P","i","s","t","o","l">>
ttPistolFirearms ==
    <<"P","i","s","t","o","l"," ","F","i","r","e","a","r","m","s">>
ttFirearmPistol ==
    <<"F","i","r","e","a","r","m",":"," ","p","i","s","t","o","l">>
ttWeapons == <<"W","e","a","p","o","n","s">>
ttRifleWeapon == <<"R","i","f","l","e"," ","(","w","e","a","p","o","n",")">>
ttRifle == <<"R","i","f","l","e">>
ttFirearmsFirearm ==
    <<"f","i","r","e","a","r","m","s","/","f","i","r","e","a","r","m">>
ttWeaponsRifle ==
    <<"W","e","a","p","o","n","s"," ","-"," ","R","i","f","l","e">>
TypeTexts == {
    <<>>, ttPistol, ttPistolFirearms, ttFirearmPistol, ttWeapons,
    ttRifleWeapon, ttRifle, ttFirearmsFirearm, ttWeaponsRifle }

\* caliber texts
caCal223 == <<"C","a","l"," ",".","2","2","3">>
ca223Caliber == <<"2","2","3"," ","C","A","L","I","B","E","R">>
caZero == <<"0">>
caZeroZero == <<"0","0">>
ca045 == <<".","0","4","5">>
ca0045 == <<"0","0","4","5">>
ca0Cal == <<"0"," ","c","a","l">>
caCal9Cal == <<"c","a","l"," ","9"," ","c","a","l">>
ca00x == <<"0","0","x">>
ca9mm == <<"9","m","m">>
caCal == <<"C","A","L">>
caCaliber045 == <<"C","a","l","i","b","e","r"," ","0","4","5">>
CaliberTexts == {
    <<>>, caCal223, ca223Caliber, caZero, caZeroZero, ca045, ca0045,
    ca0Cal, caCal9Cal, ca00x, ca9mm, caCal, caCaliber045 }

\* texts handed to the field comparators
cpAR15 == <<"A","R","1","5">>
cpAR15Rifle == <<"A","R","-","1","5"," ","R","I","F","L","E">>
cpar15 == <<"a","r"," ","1","5">>
cpAR == <<"A","R">>
cpARDotted == <<"A",".","R",".">>
cpR15 == <<"R","1","5">>
cp15 == <<"1","5">>
cpAcmeInc == <<"A","c","m","e"," ","I","n","c">>
cpAcme == <<"A","c","m","e">>
cpDash == <<"-">>
ComparatorTexts == {
    <<>>, cpAR15, cpAR15Rifle, cpar15, cpAR, cpARDotted, cpR15, cp15,
    cpAcmeInc, cpAcme, cpDash }

\* cells handed to compareField: blank, padded and plain values
ceBlank == <<" ">>
ce9mm == <<"9","m","m">>
ce9mmPadded == <<"9","m","m"," ">>
ce9MMPadded == <<" ","9","M","M">>
ce40 == <<"4","0">>
ce9mmLuger == <<"9","m","m"," ","L","u","g","e","r">>
ce9 == <<"9">>
CellTexts == {
    <<>>, ceBlank, ce9mm, ce9mmPadded, ce9MMPadded, ce40, ce9mmLuger, ce9 }

pageVars == <<catalog, rows, results, loading, error, debugInfo, pc,
              runLocals, loads, download, activeStatusFilters>>

\* the state after a helper fn applied to args has returned ret
Applied(fn, args, ret) ==
    [fn |-> fn, args |-> args, ret |-> ret, again |-> FALSE]

Apply_norm ==
    /\ call = NoCall
    /\ \E s \in NormTexts : call' = Applied("norm", <<s>>, <<norm(s)>>)
    /\ UNCHANGED pageVars

Apply_normDigits ==
    /\ call = NoCall
    /\ \E s \in NormTexts :
          call' = Applied("normDigits", <<s>>, <<normDigits(s)>>)
    /\ UNCHANGED pageVars

\* norm or normDigits applied to what it returned
Apply_again ==
    /\ call.fn \in {"norm", "normDigits"}
    /\ ~call.again
    /\ call' = [fn |-> call.fn, args |-> call.ret, again |-> TRUE,
                ret |-> IF call.fn = "norm" THEN <<norm(call.ret[1])>>
                        ELSE <<normDigits(call.ret[1])>>]
    /\ UNCHANGED pageVars

Apply_normManufacturer ==
    /\ call = NoCall
    /\ \E a \in ManufacturerTexts, b \in ManufacturerTexts :
          call' = Applied("normManufacturer", <<a, b>>,
                          <<normManufacturer(a), normManufacturer(b)>>)
    /\ UNCHANGED pageVars

Apply_normType ==
    /\ call = NoCall
    /\ \E a \in TypeTexts, b \in TypeTexts :
          call' = Applied("normType", <<a, b>>, <<normType(a), normType(b)>>)
    /\ UNCHANGED pageVars

Apply_normCaliber ==
    /\ call = NoCall
    /\ \E a \in CaliberTexts, b \in CaliberTexts :
          call' = Applied("normCaliber", <<a, b>>,
                          <<normCaliber(a), normCaliber(b)>>)
    /\ UNCHANGED pageVars

\* FIELD_COMPARATORS[f](a, b)
Apply_comparator ==
    /\ call = NoCall
    /\ \E f \in DOMAIN FIELD_COMPARATORS :
          \E a \in ComparatorTexts, b \in ComparatorTexts :
              call' = Applied("comparator", <<f, a, b>>,
                        <<comparatorFactory(FIELD_COMPARATORS[f].normalizer,
                                            FIELD_COMPARATORS[f].allowContain,
                                            a, b)>>)
    /\ UNCHANGED pageVars

\* compareField(actual, expected, FIELD_COMPARATORS[f])
Apply_compareField ==
    /\ call = NoCall
    /\ \E f \in DOMAIN FIELD_COMPARATORS :
          \E actual \in CellTexts, expected \in CellTexts :
              call' = Applied("compareField", <<f, actual, expected>>,
                        <<compareField(actual, expected,
                                       FIELD_COMPARATORS[f])>>)
    /\ UNCHANGED pageVars

\* rows handed to pickField: two manufacturer columns each, under headers in
\* the listed, the upper-case and a mixed casing, with blank and plain values
AliasHeaders == {"Manufacturer", "MFR", "Mfr", "brand", "BRAND", "MAKER"}
AliasValues == {<<>>, ceBlank, mAcme, mBolt}
AliasRows ==
    UNION {[hs -> AliasValues] :
              hs \in {x \in SUBSET AliasHeaders : Cardinality(x) = 2}}

\* pickField(row, ALIAS[f])
Apply_pickField ==
    /\ call = NoCall
    /\ \E row \in AliasRows, f \in DOMAIN ALIAS :
          call' = Applied("pickField", <<row, f>>, <<pickField(row, ALIAS[f])>>)
    /\ UNCHANGED pageVars

InitFn ==
    /\ catalog = <<>>
    /\ InitPage

NextFn ==
    \/ Apply_norm
    \/ Apply_normDigits
    \/ Apply_again
    \/ Apply_normManufacturer
    \/ Apply_normType
    \/ Apply_normCaliber
    \/ Apply_comparator
    \/ Apply_compareField
    \/ Apply_pickField

SpecFn == InitFn /\ [][NextFn]_vars

----------------------------------------------------------------------------
(* Export and re-import: downloadCSV, src/pages/upload.js:877-888, and the *)
(* parse of handleFile, src/pages/upload.js:458-468 (Papa.parse with       *)
(* header: true, skipEmptyLines: true and trimmed headers; the delimiter   *)
(* it detects in the exported text is the comma and the line end "\n").    *)

\* the characters of the header names and of the words of a Status
LabelText == {
    <<"UPC",
      <<"U","P","C">>>>,
    <<"Manufacturer",
      <<"M","a","n","u","f","a","c","t","u","r","e","r">>>>,
    <<"Model",
      <<"M","o","d","e","l">>>>,
    <<"Type",
      <<"T","y","p","e">>>>,
    <<"Caliber",
      <<"C","a","l","i","b","e","r">>>>,
    <<"Importer",
      <<"I","m","p","o","r","t","e","r">>>>,
    <<"Country",
      <<"C","o","u","n","t","r","y">>>>,
    <<"Status",
      <<"S","t","a","t","u","s">>>>,
    <<"Notes",
      <<"N","o","t","e","s">>>>,
    <<"VERIFIED",
      <<"V","E","R","I","F","I","E","D">>>>,
    <<"NOT VERIFIED",
      <<"N","O","T"," ","V","E","R","I","F","I","E","D">>>>,
    <<"UNKNOWN",
      <<"U","N","K","N","O","W","N">>>>,
    <<"ATF match",
      <<"A","T","F"," ","m","a","t","c","h">>>>,
    <<"UPC & ATF match",
      <<"U","P","C"," ","&"," ","A","T","F"," ","m","a","t","c","h">>>>,
    <<"ATF match, UPC unknown",
      <<"A","T","F"," ","m","a","t","c","h",","," ","U","P","C"," ","u","n","k","n","o","w","n">>>>,
    <<"No catalog match",
      <<"N","o"," ","c","a","t","a","l","o","g"," ","m","a","t","c","h">>>>,
    <<"ATF MATCH",
      <<"A","T","F"," ","M","A","T","C","H">>>> }
CharsOf(l) == (CHOOSE p \in LabelText : p[1] = l)[2]

\* the header name spelled by chars ("?" for a text that is no known header)
HeaderOf(chars) ==
    IF \E p \in LabelText : p[2] = chars
    THEN (CHOOSE p \in LabelText : p[2] = chars)[1]
    ELSE "?"

\* parts.join(sep)
RECURSIVE JoinWith(_, _)
JoinWith(parts, sep) ==
    IF parts = <<>> THEN <<>>
    ELSE IF Len(parts) = 1 THEN parts[1]
    ELSE parts[1] \o sep \o JoinWith(Tail(parts), sep)

\* the emoji of a Status, written as one character: "+" for the check mark
\* of VERIFIED, "!" for the warning sign of the other kinds
StatusMark(kind) == IF kind = "VERIFIED" THEN "+" ELSE "!"

\* the Status text of a result: `KIND <emoji> (label, label)`
StatusText(st) ==
    CharsOf(st.kind) \o <<" ", StatusMark(st.kind), " ", "(">>
        \o JoinWith([i \in 1..Len(st.detail) |-> CharsOf(st.detail[i])],
                    <<",", " ">>)
        \o <<")">>

\* JSON.stringify of a text: quoted, with ", \ and the line feed escaped by
\* a backslash
RECURSIVE JSONEscape(_)
JSONEscape(t) ==
    IF t = <<>> THEN <<>>
    ELSE (CASE Head(t) = "\"" -> <<"\\", "\"">>
            [] Head(t) = "\\" -> <<"\\", "\\">>
            [] Head(t) = "\n" -> <<"\\", "n">>
            [] OTHER -> <<Head(t)>>) \o JSONEscape(Tail(t))

JSONstringify(t) == <<"\"">> \o JSONEscape(t) \o <<"\"">>

\* Object.keys(results[0]) without __meta: the canonical columns, the extra
\* columns of the upload row (rows are functions, which keep no column
\* order: a fixed enumeration stands for the order of the file), Status
CanonicalOrder ==
    <<"UPC", "Manufacturer", "Model", "Type", "Caliber", "Importer", "Country">>
ExtraOrder(res) ==
    LET extra == DOMAIN res.cols \ CanonicalCols
    IN  CHOOSE q \in [1..Cardinality(extra) -> extra] :
            \A h \in extra : \E i \in 1..Cardinality(extra) : q[i] = h
ExportHeaders(res) == CanonicalOrder \o ExtraOrder(res) \o <<"Status">>

\* r[h] ?? "" of a result row
ExportCell(res, h) ==
    IF h = "Status" THEN StatusText(res.Status) ELSE Cell(res.cols, h)

\* csvContent of downloadCSV
CsvContent(rs) ==
    LET headers == ExportHeaders(rs[1])
        line(r) == JoinWith([j \in 1..Len(headers) |->
                                JSONstringify(ExportCell(r, headers[j]))],
                            <<",">>)
    IN  JoinWith(<<JoinWith([j \in 1..Len(headers) |-> CharsOf(headers[j])],
                            <<",">>)>>
                    \o [i \in 1..Len(rs) |-> line(rs[i])],
                 <<"\n">>)

\* click on Download CSV
DownloadCSV ==
    /\ results # <<>>
    /\ download' = CsvContent(results)
    /\ UNCHANGED <<activeStatusFilters, call, catalog, rows, results, loading, error, debugInfo,
                   pc, runLocals, loads>>

\* input.indexOf of the first character of cs at or after start (0: none)
NextIn(input, cs, start) ==
    LET hits == {i \in start..Len(input) : input[i] \in cs}
    IN  IF hits = {} THEN 0 ELSE CHOOSE i \in hits : \A j \in hits : i <= j

\* the parser's search for the quote that closes a quoted field (0: none):
\* a quote at the end of the input closes it; a quote followed by a quote is
\* an escaped quote; a quote followed, after blanks only, by the delimiter or
\* the line end closes it; any other quote is kept as data
RECURSIVE CloseQuote(_, _)
CloseQuote(input, start) ==
    LET q == NextIn(input, {"\""}, start)
        sep == NextIn(input, {",", "\n"}, q + 1)
    IN  IF q = 0 THEN 0
        ELSE IF q = Len(input) THEN q
        ELSE IF input[q + 1] = "\"" THEN CloseQuote(input, q + 2)
        ELSE IF sep # 0 /\ \A i \in (q + 1)..(sep - 1) : input[i] \in SpaceChars
             THEN q
        ELSE CloseQuote(input, q + 1)

\* .replace(/""/g, '"') on the text of a quoted field
RECURSIVE Unquote(_)
Unquote(t) ==
    IF t = <<>> THEN <<>>
    ELSE IF Len(t) >= 2 /\ t[1] = "\"" /\ t[2] = "\""
         THEN <<"\"">> \o Unquote(SubSeq(t, 3, Len(t)))
    ELSE <<Head(t)>> \o Unquote(Tail(t))

\* the parser's loop: the lines of fields from the field that starts at
\* cursor, row holding the fields already read on the current line; a quoted
\* field that is never closed takes the rest of the input
RECURSIVE PapaFields(_, _, _)
PapaFields(input, cursor, row) ==
    IF cursor <= Len(input) /\ input[cursor] = "\""
    THEN LET q == CloseQuote(input, cursor + 1)
             sep == NextIn(input, {",", "\n"}, q + 1)
             value == Unquote(SubSeq(input, cursor + 1, q - 1))
         IN  IF q = 0
             THEN <<Append(row, SubSeq(input, cursor + 1, Len(input)))>>
             ELSE IF q = Len(input) THEN <<Append(row, value)>>
             ELSE IF input[sep] = ","
                  THEN PapaFields(input, sep + 1, Append(row, value))
             ELSE <<Append(row, value)>> \o PapaFields(input, sep + 1, <<>>)
    ELSE LET sep == NextIn(input, {",", "\n"}, cursor)
             value == SubSeq(input, cursor, sep - 1)
         IN  IF sep = 0
             THEN <<Append(row, SubSeq(input, cursor, Len(input)))>>
             ELSE IF input[sep] = ","
                  THEN PapaFields(input, sep + 1, Append(row, value))
             ELSE <<Append(row, value)>> \o PapaFields(input, sep + 1, <<>>)

\* header: true: the record of one line, keyed by the header of each field
\* it has (fields beyond the headers are not columns of the record)
PapaRecord(headers, fields) ==
    LET n == Min(Len(headers), Len(fields))
    IN  [h \in {headers[j] : j \in 1..n} |->
            fields[CHOOSE j \in 1..n : headers[j] = h]]

\* Papa.parse(file, {header: true, skipEmptyLines: true, transformHeader})
PapaParse(input) ==
    LET kept == SelectSeq(PapaFields(input, 1, <<>>),
                          LAMBDA r : ~(Len(r) = 1 /\ r[1] = <<>>))
        headers == [j \in 1..Len(kept[1]) |-> HeaderOf(trim(kept[1][j]))]
    IN  [i \in 1..(Len(kept) - 1) |-> PapaRecord(headers, kept[i + 1])]

\* the downloaded file is selected in the file input
HandleFileDownload(maxLoads) ==
    /\ download # NoDownload
    /\ HandleFileComplete({PapaParse(download)}, maxLoads)

\* upload rows whose manufacturer holds the characters a CSV writer has to
\* protect: quote, comma, line feed, backslash
xQuote == <<"A", "\"", "B">>
xComma == <<"A", ",", "B">>
xLineFeed == <<"A", "\n", "B">>
xBackslash == <<"A", "\\", "B">>
xQuoted == <<"\"", "A", "\"">>
ExportManufacturers == {mAcme, xQuote, xComma, xLineFeed, xBackslash, xQuoted}

ExportRow(upc, mf) ==
    [h \in CanonicalCols |->
        CASE h = "UPC" -> upc
          [] h = "Manufacturer" -> mf
          [] h = "Model" -> <<"M", "1">>
          [] h = "Type" -> <<"P", "i", "s", "t", "o", "l">>
          [] h = "Caliber" -> <<"9", "m", "m">>
          [] OTHER -> <<>>]

\* files of one row, and of a row followed by a plain row
ExportFiles ==
    {<<ExportRow(u, m)>> : u \in {<<>>, <<"1", "2">>}, m \in ExportManufacturers}
    \cup {<<ExportRow(<<>>, m), ExportRow(<<"1", "2">>, mAcme)>> :
            m \in ExportManufacturers}

\* a session that verifies an upload, downloads the results and selects the
\* downloaded file again
NextExport ==
    \/ HandleFileComplete(ExportFiles, MaxLoads)
    \/ StartVerify
    \/ UpcFetchOk
    \/ UpcFetchErr
    \/ ScanPageMore
    \/ ScanPageLast
    \/ ScanPageErr
    \/ DownloadCSV
    \/ HandleFileDownload(MaxLoads + 1)

SpecExport == InitSession /\ [][NextExport]_vars

----------------------------------------------------------------------------
(* The paginated scan over catalogs of up to two full pages and a short    *)
(* one.  An awaited fetch resolves, with data or with an error: the steps  *)
(* that end an await are weakly fair.                                      *)

ScanCatalogs == SeqsUpTo(SessionCatalogVocab, 2 * pageSize + 1)
ScanFiles == {<<r>> : r \in SessionRows}

InitScan ==
    /\ catalog \in ScanCatalogs
    /\ InitPage

NextScan ==
    \/ HandleFileComplete(ScanFiles, 1)
    \/ StartVerify
    \/ UpcFetchOk
    \/ UpcFetchErr
    \/ ScanPageMore
    \/ ScanPageLast
    \/ ScanPageErr

FetchesResolve ==
    /\ WF_vars(UpcFetchErr \/ UpcFetchOk)
    /\ WF_vars(ScanPageErr \/ ScanPageMore \/ ScanPageLast)

SpecScan == InitScan /\ [][NextScan]_vars /\ FetchesResolve

----------------------------------------------------------------------------
(* Sessions in which a file is selected again: between runs, while a run   *)
(* waits for a fetch, or after a parse error.                              *)

RunFiles == {<<r>> : r \in SessionRows} \cup {[i \in 1..2 |-> r] : r \in SessionRows}

NextRuns ==
    \/ HandleFileComplete(RunFiles, MaxLoads + 1)
    \/ HandleFileError(MaxLoads + 1)
    \/ StartVerify
    \/ UpcFetchOk
    \/ UpcFetchErr
    \/ ScanPageMore
    \/ ScanPageLast
    \/ ScanPageErr

SpecRuns == InitSession /\ [][NextRuns]_vars /\ FetchesResolve

----------------------------------------------------------------------------
(* The status filters of the results table, src/pages/upload.js:904-959.   *)

\* the keys of statusFilters: one toggle button each
StatusFilterKeys == {"VERIFIED", "NOT VERIFIED", "UNKNOWN"}

\* statusKeyForRow(status), on the text of the Status
statusKeyForRow(text) ==
    IF \/ includes(text, CharsOf("NOT VERIFIED"))
       \/ includes(text, CharsOf("ATF MATCH"))
    THEN "NOT VERIFIED"
    ELSE IF includes(text, CharsOf("VERIFIED")
                           \o <<" ", StatusMark("VERIFIED")>>)
    THEN "VERIFIED"
    ELSE "UNKNOWN"

\* activeStatusFilters.includes(key)
IsActive(filters, key) == \E n \in 1..Len(filters) : filters[n] = key

\* results.filter(row => activeStatusFilters.includes(statusKeyForRow(..)))
filteredResults ==
    SelectSeq(results,
        LAMBDA row : IsActive(activeStatusFilters,
                              statusKeyForRow(StatusText(row.Status))))

\* faulty variant: the last active filter can be switched off
toggleStatusFilter_NoLastGuard(prev, key) ==
    IF IsActive(prev, key)
    THEN SelectSeq(prev, LAMBDA item : item # key)
    ELSE Append(prev, key)

\* the updater of toggleStatusFilter
toggleStatusFilter(prev, key) ==
    IF IsActive(prev, key)
    THEN IF Len(prev) = 1 THEN prev
         ELSE SelectSeq(prev, LAMBDA item : item # key)
    ELSE Append(prev, key)

\* click on a filter button (the buttons are rendered while results is
\* non-empty)
ToggleStatusFilter ==
    /\ results # <<>>
    /\ \E key \in StatusFilterKeys :
          activeStatusFilters' = toggleStatusFilter(activeStatusFilters, key)
    /\ UNCHANGED <<call, download, catalog, rows, results, loading, error,
                   debugInfo, pc, runLocals, loads>>

\* click on the reset button
ResetStatusFilters ==
    /\ results # <<>>
    /\ activeStatusFilters' = AllStatusFilters
    /\ UNCHANGED <<call, download, catalog, rows, results, loading, error,
                   debugInfo, pc, runLocals, loads>>

\* a session with one file, runs, and clicks on the filter buttons
NextFilter ==
    \/ HandleFileComplete(SessionFiles, 1)
    \/ StartVerify
    \/ UpcFetchOk
    \/ UpcFetchErr
    \/ ScanPageMore
    \/ ScanPageLast
    \/ ScanPageErr
    \/ ToggleStatusFilter
    \/ ResetStatusFilters

SpecFilter == InitSession /\ [][NextFilter]_vars

----------------------------------------------------------------------------
(* Vocabulary of the properties.  Under SpecMatch a single file is loaded, *)
(* so results[i], once present, is the verdict of rows[i].                 *)

Verdicts == 1..Len(results)

\* the normalised identifier and core attributes of upload row i
RowDigits(i) == normDigits(firstVal(rows[i], ALIAS.upc))
RowCore(i) == NormalizedCoreOfPicks(PicksOf(rows[i]))
RowPick(i, k) == pickField(rows[i], ALIAS[k])

\* catalog records whose normalised identifier is d (exact digit match)
IdExact(d) ==
    {j \in 1..Len(catalog) : d # <<>> /\ normDigits(catalog[j].upc) = d}

\* ... or equals d once leading zeros are stripped from both
IdTolerant(d) ==
    {j \in 1..Len(catalog) :
        /\ d # <<>>
        /\ normDigits(catalog[j].upc) # <<>>
        /\ \/ normDigits(catalog[j].upc) = d
           \/ strip0(normDigits(catalog[j].upc)) = strip0(d)}

\* catalog records with the normalised attribute tuple nc
SameCore(nc) == {j \in 1..Len(catalog) : CoreOfCatalogRow(catalog[j]) = nc}

\* catalog records with the normalised manufacturer and model of nc and four
\* non-empty normalised core attributes
SameManufacturerModel(nc) ==
    {j \in 1..Len(catalog) :
        /\ normManufacturer(catalog[j].manufacturer) = nc.manufacturer
        /\ normModel(catalog[j].model) = nc.model
        /\ normManufacturer(catalog[j].manufacturer) # <<>>
        /\ normModel(catalog[j].model) # <<>>
        /\ normType(catalog[j].type) # <<>>
        /\ normCaliber(catalog[j].caliber) # <<>>}

CoreComplete(nc) == \A k \in CoreKeySet : nc[k] # <<>>

VerifiedUpc == [kind |-> "VERIFIED", detail |-> <<"UPC & ATF match">>]
VerifiedAtf == [kind |-> "VERIFIED", detail |-> <<"ATF match">>]
UpcUnknown == [kind |-> "NOT VERIFIED", detail |-> <<"ATF match, UPC unknown">>]

----------------------------------------------------------------------------
\* C1: identifier lookup is leading-zero tolerant: for every verified row
\* with a non-empty normalised identifier d, a catalog record whose
\* normalised identifier equals d, exactly or after stripping the leading
\* zeros of both, makes the row resolve by identifier, and when that record
\* also has the row's normalised attributes the status is VERIFIED (UPC &
\* ATF match).
C1_LeadingZeroTolerant ==
    \A i \in Verdicts :
        \A j \in IdTolerant(RowDigits(i)) :
            /\ results[i].candidateSource = "upc"
            /\ CoreOfCatalogRow(catalog[j]) = RowCore(i)
                  => results[i].Status = VerifiedUpc

\* C2: an unresolved identifier is never silently ignored: a row whose
\* non-empty normalised identifier matches no catalog record is never
\* VERIFIED, and when its attribute tuple is that of an indexed catalog
\* record it is NOT VERIFIED with the UPC field annotated "not found in
\* catalog; matched by ATF fields".
C2_UnresolvedIdentifierFlagged ==
    \A i \in Verdicts :
        (RowDigits(i) # <<>> /\ IdTolerant(RowDigits(i)) = {}) =>
            /\ results[i].Status.kind # "VERIFIED"
            /\ (CoreComplete(RowCore(i)) /\ SameCore(RowCore(i)) # {}) =>
                  /\ results[i].Status.kind = "NOT VERIFIED"
                  /\ DOMAIN results[i].meta = {"UPC"}
                  /\ results[i].meta["UPC"].reason =
                        "UPC not found in catalog; matched by ATF fields"

\* C3 (as stated): a row without identifier whose normalised attribute tuple
\* is that of no catalog record has status UNKNOWN.
C3_NoTupleMatchIsUnknown ==
    \A i \in Verdicts :
        (RowDigits(i) = <<>> /\ SameCore(RowCore(i)) = {}) =>
            results[i].Status.kind = "UNKNOWN"

\* C3 (amended): a row without identifier whose normalised manufacturer and
\* model are those of no catalog record with four non-empty normalised core
\* attributes has status UNKNOWN.
C3_NoManufacturerModelMatchIsUnknown ==
    \A i \in Verdicts :
        (RowDigits(i) = <<>> /\ SameManufacturerModel(RowCore(i)) = {}) =>
            /\ results[i].Status = [kind |-> "UNKNOWN",
                                    detail |-> <<"No catalog match">>]
            /\ results[i].path = "unknown"

C3_Witness ==
    \E i \in Verdicts :
        /\ RowDigits(i) = <<>>
        /\ SameManufacturerModel(RowCore(i)) = {}
        /\ catalog # <<>>
        /\ results[i].Status.kind = "UNKNOWN"

C5_SingleTupleMatchVerified ==
    \A i \in Verdicts :
        (RowDigits(i) = <<>> /\ Cardinality(SameCore(RowCore(i))) = 1) =>
            results[i].Status = VerifiedAtf /\ results[i].meta = EmptyMeta

\* C5 (amended): a row without identifier whose normalised tuple has four
\* non-empty components and is that of exactly one catalog record is
\* VERIFIED (ATF match) with empty metadata.
C5_SingleCompleteTupleMatchVerified ==
    \A i \in Verdicts :
        (RowDigits(i) = <<>>
            /\ CoreComplete(RowCore(i))
            /\ Cardinality(SameCore(RowCore(i))) = 1) =>
            results[i].Status = VerifiedAtf /\ results[i].meta = EmptyMeta

C5_Witness ==
    \E i \in Verdicts :
        /\ RowDigits(i) = <<>>
        /\ CoreComplete(RowCore(i))
        /\ Cardinality(SameCore(RowCore(i))) = 1
        /\ results[i].Status = VerifiedAtf
        /\ results[i].path = "atf"

----------------------------------------------------------------------------
(* Rows resolved by identifier                                             *)

CoreLabels == <<"Manufacturer", "Model", "Type", "Caliber">>

\* the core fields of upload row i whose comparison with catalog record b
\* fails, as labels
FailingLabels(i, b) ==
    {toCanonical[k] : k \in
        {k \in CoreKeySet :
            ~compareField(RowPick(i, k).value, b[k],
                          FIELD_COMPARATORS[k]).match}}

InLabelOrder(ls) == SelectSeq(CoreLabels, LAMBDA l : l \in ls)

\* list, status and annotated fields of a verdict reached by identifier
ListsExactly(res, failing) ==
    /\ res.Status = IF failing = {} THEN VerifiedUpc
                    ELSE [kind |-> "NOT VERIFIED",
                          detail |-> InLabelOrder(failing)]
    /\ DOMAIN res.meta = failing

\* C6 (as stated): for a row resolved via identifier the mismatched fields
\* are exactly the core fields whose comparison with the chosen record
\* fails, in the order Manufacturer, Model, Type, Caliber; the status is
\* NOT VERIFIED naming them, or VERIFIED (UPC & ATF match) when there is
\* none; the metadata of each has expected equal to the chosen record's value.
C6_MismatchListExpectedRaw ==
    \A i \in Verdicts :
        results[i].path = "upc" =>
            /\ ListsExactly(results[i], FailingLabels(i, results[i].best[1]))
            /\ \A l \in DOMAIN results[i].meta :
                  results[i].meta[l].expected =
                      results[i].best[1][KeyOfLabel(l)]

\* C6 (amended): as above, with expected equal to the chosen record's value
\* trimmed of surrounding whitespace.
C6_MismatchListExpectedTrimmed ==
    \A i \in Verdicts :
        results[i].path = "upc" =>
            /\ ListsExactly(results[i], FailingLabels(i, results[i].best[1]))
            /\ \A l \in DOMAIN results[i].meta :
                  /\ results[i].meta[l].expected =
                        trim(results[i].best[1][KeyOfLabel(l)])
                  /\ results[i].meta[l].actual =
                        trim(RowPick(i, KeyOfLabel(l)).value)

\* a row that differs from its identifier candidate in caliber alone
C6_Witness ==
    \E i \in Verdicts :
        /\ results[i].path = "upc"
        /\ results[i].Status = [kind |-> "NOT VERIFIED",
                                detail |-> <<"Caliber">>]
        /\ results[i].meta["Caliber"].expected = c9
        /\ results[i].best[1].caliber = c9pad

\* the records of the catalog with normalised identifier d, in store order
IdCandidates(d) ==
    SelectSeq(catalog, LAMBDA rec : normDigits(rec.upc) = d)

\* the first of cands with the normalised attribute tuple nc, else the first
FirstExactElseFirst(nc, cands) ==
    IF \E n \in 1..Len(cands) : CoreOfCatalogRow(cands[n]) = nc
    THEN cands[CHOOSE n \in 1..Len(cands) :
                  /\ CoreOfCatalogRow(cands[n]) = nc
                  /\ \A m \in 1..(n - 1) : CoreOfCatalogRow(cands[m]) # nc]
    ELSE cands[1]

\* C7: when the identifier of a row resolves to catalog records, the
\* comparison target is one of them: the first whose normalised attribute
\* tuple equals the row's, else the first in catalog order.
C7_TargetAmongIdentifierCandidates ==
    \A i \in Verdicts :
        IdExact(RowDigits(i)) # {} =>
            /\ results[i].candidateSource = "upc"
            /\ results[i].best =
                  <<FirstExactElseFirst(RowCore(i),
                                        IdCandidates(RowDigits(i)))>>

\* two records share the identifier and the second one is the target
C7_Witness ==
    \E i \in Verdicts :
        /\ Cardinality(IdExact(RowDigits(i))) >= 2
        /\ results[i].path = "upc"
        /\ results[i].best # <<IdCandidates(RowDigits(i))[1]>>
        /\ CoreOfCatalogRow(results[i].best[1]) = RowCore(i)

OptionalLabel == [importer |-> "Importer", country |-> "Country"]

\* f is present on both sides and the normalizeToken forms differ
OptionalDiffers(actual, expected) ==
    /\ trim(actual) # <<>>
    /\ trim(expected) # <<>>
    /\ norm(actual) # norm(expected)

\* C8: for a row resolved via identifier, importer and country are compared
\* too: when the row's and the chosen record's value are both present and
\* their normalizeToken forms differ, the result is NOT VERIFIED and lists
\* the field.
C8_OptionalFieldsCompared ==
    \A i \in Verdicts :
        results[i].path = "upc" =>
            \A f \in {"importer", "country"} :
                OptionalDiffers(RowPick(i, f).value, results[i].best[1][f]) =>
                    /\ results[i].Status.kind = "NOT VERIFIED"
                    /\ \E n \in 1..Len(results[i].Status.detail) :
                          results[i].Status.detail[n] = OptionalLabel[f]

----------------------------------------------------------------------------
(* Runs                                                                    *)

\* the step in which a run ends: by completing (debugInfo is set) or by
\* failing at a fetch (debugInfo stays null)
RunCompletes == pc # "idle" /\ pc' = "idle" /\ debugInfo' # NoDebugInfo
RunFails == pc # "idle" /\ pc' = "idle" /\ debugInfo' = NoDebugInfo

StatusKinds == {"VERIFIED", "NOT VERIFIED", "UNKNOWN"}

\* result res carries the canonical fields of upload row r
ResultOfRow(res, r) ==
    /\ res.cols["UPC"] = firstVal(r, ALIAS.upc)
    /\ res.cols["Manufacturer"] = firstVal(r, ALIAS.manufacturer)
    /\ res.cols["Model"] = firstVal(r, ALIAS.model)
    /\ res.cols["Type"] = firstVal(r, ALIAS.type)
    /\ res.cols["Caliber"] = firstVal(r, ALIAS.caliber)
    /\ res.cols["Importer"] = firstVal(r, ALIAS.importer)
    /\ res.cols["Country"] = firstVal(r, ALIAS.country)

\* C9: a completed run yields exactly one result per row of the run, in the
\* order of the rows, each with a status of the VERIFIED, NOT VERIFIED or
\* UNKNOWN variants.
C9_OneResultPerRow ==
    [][RunCompletes =>
        /\ Len(results') = Len(runRows)
        /\ \A i \in 1..Len(runRows) :
              /\ ResultOfRow(results'[i], runRows[i])
              /\ results'[i].Status.kind \in StatusKinds]_vars

\* a completed run over a file of two different rows
C9_Witness ==
    /\ pc = "idle"
    /\ debugInfo # NoDebugInfo
    /\ Len(results) >= 2
    /\ results[1].cols # results[2].cols

\* C10 (as stated): when a fetch of a run fails, the run sets the run-level
\* error and results is empty once the run has ended.
C10_FailedRunLeavesNoResults ==
    [][RunFails => error' = FetchError /\ results' = <<>>]_vars

\* C10 (amended): when a fetch of a run fails, the run sets the run-level
\* error and writes no result: from its start to its end results keeps the
\* value it had before the run (empty when no earlier run completed).
C10_FailedRunKeepsResults ==
    [][/\ RunFails => (error' = FetchError /\ ~loading' /\ results' = results)
       /\ (pc' # "idle") => results' = results]_vars

\* a run has failed while the results of an earlier run are displayed
C10_Witness ==
    /\ pc = "idle"
    /\ error = FetchError
    /\ debugInfo = NoDebugInfo
    /\ results # <<>>

\* C11: a run against a catalog without any record is fatal: it ends with the
\* run-level error and writes no per-row result.
C11_EmptyCatalogIsFatal ==
    [][(catalog = <<>> /\ pc # "idle" /\ pc' = "idle") =>
          (error' = FetchError /\ results' = results)]_vars

\* C12: compareField works on the trimmed values: two blank values match; a
\* blank actual value against a present expected value is a mismatch with
\* the reason "Missing value"; two present values match exactly when the
\* field's comparator accepts them, and a failure carries the reason
\* Expected "<expected value>".
C12_CompareFieldContract ==
    call.fn = "compareField" =>
        LET f == call.args[1]
            a == trim(call.args[2])
            e == trim(call.args[3])
            r == call.ret[1]
        IN  /\ (a = <<>> /\ e = <<>>) => (r.match /\ r.reason = <<>>)
            /\ (a = <<>> /\ e # <<>>) =>
                  (~r.match /\ r.reason = <<"Missing value">>)
            /\ (a # <<>> /\ e # <<>>) =>
                  /\ r.match = comparatorFactory(
                                   FIELD_COMPARATORS[f].normalizer,
                                   FIELD_COMPARATORS[f].allowContain, a, e)
                  /\ ~r.match => r.reason = <<"Expected", e>>

\* compareField has rejected a caliber against a padded catalog value
C12_Witness ==
    /\ call.fn = "compareField"
    /\ call.args = <<"caliber", ce40, ce9mmPadded>>
    /\ ~call.ret[1].match
    /\ call.ret[1].reason = <<"Expected", ce9mm>>

\* the normalised token of a text of field f
TokenOf(f, s) ==
    CASE f = "manufacturer" -> normManufacturer(s)
      [] f = "model" -> normModel(s)
      [] f = "type" -> normType(s)
      [] f = "caliber" -> normCaliber(s)
      [] OTHER -> norm(s)

\* C13: the comparators of manufacturer, importer and country accept two
\* texts exactly when their normalised tokens are equal; those of model,
\* type and caliber accept them when the tokens are equal or, both tokens
\* being at least 3 long, one contains the other.
C13_FieldComparators ==
    call.fn = "comparator" =>
        LET f == call.args[1]
            na == TokenOf(f, call.args[2])
            nb == TokenOf(f, call.args[3])
        IN  call.ret[1] =
              \/ na = nb
              \/ /\ f \in {"model", "type", "caliber"}
                 /\ Len(na) >= 3
                 /\ Len(nb) >= 3
                 /\ (includes(na, nb) \/ includes(nb, na))

\* the model comparator has accepted "AR15" against "AR-15 RIFLE"
C13_Witness ==
    /\ call.fn = "comparator"
    /\ call.args = <<"model", cpAR15, cpAR15Rifle>>
    /\ call.ret = <<TRUE>>

\* C15: norm and normDigits are idempotent; norm returns characters of
\* A-Z0-9 only and normDigits digits only; the empty (absent) text gives
\* the empty text.
C15_NormalisersIdempotent ==
    /\ call.fn = "norm" =>
          /\ \A i \in 1..Len(call.ret[1]) :
                call.ret[1][i] \in UpperSet \cup DigitChars
          /\ call.args[1] = <<>> => call.ret[1] = <<>>
          /\ call.again => call.ret = call.args
    /\ call.fn = "normDigits" =>
          /\ \A i \in 1..Len(call.ret[1]) : call.ret[1][i] \in DigitChars
          /\ call.args[1] = <<>> => call.ret[1] = <<>>
          /\ call.again => call.ret = call.args

\* norm has been applied to a result of norm that is two characters long
C15_Witness ==
    /\ call.fn = "norm"
    /\ call.again
    /\ Len(call.args[1]) = 2
    /\ call.ret = call.args

\* C16: manufacturer texts that differ only in letter case, punctuation and
\* spacing (their letters and digits, upper-cased, are the same) normalise
\* to the same token, as "Acme Corp LLC" and "ACME CORP, L.L.C." do.
C16_ManufacturerFormatInsensitive ==
    call.fn = "normManufacturer" =>
        /\ norm(call.args[1]) = norm(call.args[2]) =>
              call.ret[1] = call.ret[2]
        /\ call.args = <<mfAcmeCorpLLC, mfAcmeCorpLLCDotted>> =>
              call.ret[1] = call.ret[2]

\* normManufacturer has been applied to "Acme Corp LLC" and to
\* "ACME CORP, L.L.C." and has stripped the suffixes of both
C16_Witness ==
    /\ call.fn = "normManufacturer"
    /\ call.args = <<mfAcmeCorpLLC, mfAcmeCorpLLCDotted>>
    /\ call.ret = <<<<"A","C","M","E">>, <<"A","C","M","E">>>>

\* t is a concatenation of corporate suffixes
RECURSIVE IsSuffixStack(_)
IsSuffixStack(t) ==
    \/ t = <<>>
    \/ \E i \in 1..Len(suffixes) :
          /\ startsWith(t, suffixes[i])
          /\ IsSuffixStack(Drop(t, Len(suffixes[i])))

\* r is the token base without a stack of suffixes at its end
StackStripped(base, r) ==
    \E k \in 0..Len(base) :
        /\ r = Take(base, Len(base) - k)
        /\ IsSuffixStack(Drop(base, Len(base) - k))

\* C17 (as stated): normManufacturer strips the stacked suffixes one after
\* another until no listed suffix ends the token; "XCORP LLC" loses both
\* LLC and CORP.
C17_StackedSuffixesStripped ==
    call.fn = "normManufacturer" =>
        \A i \in 1..2 :
            /\ StackStripped(norm(call.args[i]), call.ret[i])
            /\ call.args[i] = mfXcorpLLC => call.ret[i] = <<"X">>

\* C17 (amended): normManufacturer strips the stacked suffixes one after
\* another, each only while the token is more than two characters longer
\* than the suffix, until none strips: "Acme Corp LLC" loses LLC and CORP,
\* "XCORP LLC" loses LLC only.
C17_StackedSuffixesStrippedWhileLong ==
    call.fn = "normManufacturer" =>
        \A i \in 1..2 :
            /\ StackStripped(norm(call.args[i]), call.ret[i])
            /\ \A j \in 1..Len(suffixes) :
                  ~(/\ endsWith(call.ret[i], suffixes[j])
                    /\ Len(call.ret[i]) > Len(suffixes[j]) + 2)
            /\ call.args[i] = mfAcmeCorpLLC =>
                  call.ret[i] = <<"A","C","M","E">>
            /\ call.args[i] = mfXcorpLLC =>
                  call.ret[i] = <<"X","C","O","R","P">>

\* normManufacturer has been applied to "XCORP LLC" and "Acme Corp LLC"
C17_Witness ==
    /\ call.fn = "normManufacturer"
    /\ call.args = <<mfXcorpLLC, mfAcmeCorpLLC>>
    /\ call.ret[1] = <<"X","C","O","R","P">>

\* one leading zero dropped when a digit follows it
OneZeroTrimmed(base) ==
    IF Len(base) >= 2 /\ base[1] = "0" /\ IsDigit(base[2])
    THEN Tail(base) ELSE base

\* z is base without leading zeros, as far as a digit follows them
ZerosTrimmed(base, z) ==
    \E k \in 0..Len(base) :
        /\ z = Drop(base, k)
        /\ \A i \in 1..k : base[i] = "0"
        /\ ~(Len(z) >= 2 /\ z[1] = "0" /\ IsDigit(z[2]))
        /\ k > 0 => (z # <<>> /\ IsDigit(z[1]))

\* one CALIBER or CAL at the start and one at the end removed
CalTokensStripped(z) ==
    LET w == IF startsWith(z, tCALIBER) THEN Drop(z, Len(tCALIBER))
             ELSE IF startsWith(z, tCAL) THEN Drop(z, Len(tCAL))
             ELSE z
    IN  IF endsWith(w, tCALIBER) THEN Take(w, Len(w) - Len(tCALIBER))
        ELSE IF endsWith(w, tCAL) THEN Take(w, Len(w) - Len(tCAL))
        ELSE w

\* C18 (as stated): normCaliber is norm, then exactly one leading zero
\* stripped when a digit follows it, then the leading and trailing
\* CALIBER/CAL token stripped; "Cal .223" and "223 CALIBER" give the same
\* token.
C18_OneLeadingZeroStripped ==
    call.fn = "normCaliber" =>
        /\ \A i \in 1..2 :
              call.ret[i] =
                  CalTokensStripped(OneZeroTrimmed(norm(call.args[i])))
        /\ call.args = <<caCal223, ca223Caliber>> =>
              call.ret[1] = call.ret[2]

\* C18 (amended): normCaliber is norm, then every leading zero stripped
\* that a digit follows (a token that is purely zeros keeps one "0"), then
\* one leading and one trailing CALIBER/CAL token stripped; "Cal .223" and
\* "223 CALIBER" give the same token.
C18_LeadingZerosStripped ==
    call.fn = "normCaliber" =>
        /\ \A i \in 1..2 :
              \E z \in {Drop(norm(call.args[i]), k) :
                            k \in 0..Len(norm(call.args[i]))} :
                  /\ ZerosTrimmed(norm(call.args[i]), z)
                  /\ call.ret[i] = CalTokensStripped(z)
        /\ call.args = <<caCal223, ca223Caliber>> =>
              call.ret[1] = call.ret[2]

\* normCaliber has been applied to "0045" and to "0"
C18_Witness ==
    /\ call.fn = "normCaliber"
    /\ call.args = <<ca0045, caZero>>
    /\ call.ret = <<<<"4","5">>, <<"0">>>>

\* C19: normType removes every occurrence of FIREARM, FIREARMS, WEAPON and
\* WEAPONS in full: a type text with such a word normalises as the text
\* without it ("Pistol Firearms" as "Pistol", "Weapons - Rifle" as "Rifle").
C19_TypeWordsRemovedInFull ==
    call.fn = "normType" =>
        /\ call.args = <<ttPistolFirearms, ttPistol>> =>
              call.ret[1] = call.ret[2]
        /\ call.args = <<ttWeaponsRifle, ttRifle>> =>
              call.ret[1] = call.ret[2]

\* the columns of row whose header is alias n up to letter case and whose
\* value is not blank
ColumnsOfAlias(row, n) ==
    {h \in DOMAIN row : toLowerCase(h) = toLowerCase(n) /\ hasValue(row[h])}

\* C20: pickField returns the first non-blank value among the field's
\* aliases in priority order, a column header matching an alias whatever
\* its letter case; when no alias has a non-blank value it returns the
\* empty value with a null key.
C20_AliasesCaseInsensitive ==
    call.fn = "pickField" =>
        LET row == call.args[1]
            names == ALIAS[call.args[2]]
            hits == {i \in 1..Len(names) : ColumnsOfAlias(row, names[i]) # {}}
        IN  IF hits = {}
            THEN call.ret[1] = [value |-> <<>>, key |-> Null]
            ELSE /\ call.ret[1].key \in
                      ColumnsOfAlias(row,
                          names[CHOOSE i \in hits : \A j \in hits : i <= j])
                 /\ call.ret[1].value = row[call.ret[1].key]

\* the re-parsed rows carry the Status and the canonical values of the results
RoundTrip(rs, parsed) ==
    /\ Len(parsed) = Len(rs)
    /\ \A i \in 1..Len(rs) :
        /\ i <= Len(parsed)
        /\ Cell(parsed[i], "Status") = StatusText(rs[i].Status)
        /\ \A h \in CanonicalCols : Cell(parsed[i], h) = Cell(rs[i].cols, h)

\* C14: whenever the results are exported, parsing the exported text again
\* yields one row per result, with the Status and the canonical field values
\* the result had before the export, whatever characters the values hold
\* (quotes, commas and line feeds included).
C14_ExportRoundTrip ==
    [][download' # download => RoundTrip(results, PapaParse(download'))]_vars

----------------------------------------------------------------------------
\* columns of row r that are not named ks pass through to result res, which
\* carries the canonical fields and a Status
PassesThrough(res, r, ks) ==
    /\ CanonicalCols \subseteq DOMAIN res.cols
    /\ res.Status.kind \in StatusKinds
    /\ \A k \in DOMAIN r \ ks :
          k \in DOMAIN res.cols /\ res.cols[k] = r[k]

\* the columns whose name is a canonical field name or Status in some casing
NamedCanonically(r) ==
    {k \in DOMAIN r :
        \E h \in CanonicalCols \cup {"Status"} : toLowerCase(k) = toLowerCase(h)}

----------------------------------------------------------------------------
(* Partial attribute matches                                               *)

\* the attribute candidates of upload row i: the indexed catalog records
\* with the row's normalised manufacturer and model
PartialCandidates(i) == SameManufacturerModel(RowCore(i))

\* the core fields on which upload row i agrees with catalog record j
Agreeing(i, j) == MatchingKeys(PicksOf(rows[i]), catalog[j])

\* the candidate with the most agreeing core fields, the first of them in
\* catalog order
ClosestCandidate(i) ==
    CHOOSE j \in PartialCandidates(i) :
        \A k \in PartialCandidates(i) :
            \/ Cardinality(Agreeing(i, j)) > Cardinality(Agreeing(i, k))
            \/ Cardinality(Agreeing(i, j)) = Cardinality(Agreeing(i, k)) /\ j <= k

\* result res reports exactly the core fields outside agreed as mismatched
\* against record target, with the reason of a partial match
ReportsClosest(res, target, agreed) ==
    /\ res.Status = [kind |-> "NOT VERIFIED",
                     detail |-> LabelsOf(CoreKeySet \ agreed)]
    /\ DOMAIN res.meta = {toCanonical[k] : k \in CoreKeySet \ agreed}
    /\ \A l \in DOMAIN res.meta :
          /\ res.meta[l].expected = trim(target[KeyOfLabel(l)])
          /\ res.meta[l].reason = IF agreed = {} THEN "No catalog match"
                                  ELSE "Closest catalog match differs"

\* C22: a verified row without an identifier candidate and without an exact
\* attribute match, whose attribute candidates agree with it on some but
\* not all core fields, is compared with the candidate that agrees on the
\* most core fields (the first such in catalog order): exactly the core
\* fields that candidate does not agree on are reported as mismatched, with
\* the reason "Closest catalog match differs" ("No catalog match" when no
\* field agrees).
C22_PartialMatchReportsClosest ==
    \A i \in Verdicts :
        (/\ IdExact(RowDigits(i)) = {}
         /\ SameCore(RowCore(i)) = {}
         /\ PartialCandidates(i) # {}
         /\ Agreeing(i, ClosestCandidate(i)) # CoreKeySet) =>
            ReportsClosest(results[i], catalog[ClosestCandidate(i)],
                           Agreeing(i, ClosestCandidate(i)))

----------------------------------------------------------------------------
(* The full-table scan                                                     *)

\* the attribute indexes hold the records of recs, in the order of recs
IndexesOf(recs) ==
    /\ atfCandidateMap' = IndexAtf(<<>>, recs)
    /\ atfManufacturerModelMap' = IndexManufacturerModel(<<>>, recs)

\* C23: the scan requests consecutive pages of pageSize records from offset
\* 0 and stops at the first empty or short page; while it runs the indexes
\* hold exactly the records before the offset, each once and in catalog
\* order; no row is processed before the last page has arrived, and the
\* results are those of the indexes over the whole catalog (also when the
\* catalog size is a multiple of the page size); every scan ends.
C23_ScanVisitsCatalogOnce ==
    /\ [][/\ (pc # "scan" /\ pc' = "scan") => from' = 0
          /\ (pc = "scan" /\ pc' = "scan") =>
                /\ Len(FetchPage(from)) = pageSize
                /\ from' = from + pageSize
          /\ pc' = "scan" =>
                /\ from' <= Len(catalog)
                /\ IndexesOf(SubSeq(catalog, 1, from'))
          /\ pc' # "idle" => results' = results
          /\ (pc = "scan" /\ RunCompletes) =>
                /\ Len(FetchPage(from)) < pageSize
                /\ from + Len(FetchPage(from)) = Len(catalog)
                /\ results' =
                      Checked(runRows, upcMap, IndexAtf(<<>>, catalog),
                              IndexManufacturerModel(<<>>, catalog))]_vars
    /\ (pc = "scan") ~> (pc = "idle")

\* a run has completed over a catalog of exactly two full pages
C23_Witness ==
    /\ pc = "idle"
    /\ debugInfo # NoDebugInfo
    /\ results # <<>>
    /\ Len(catalog) = 2 * pageSize

----------------------------------------------------------------------------
(* Successive runs                                                         *)

\* the verdicts of a run over rows rs that starts from empty indexes and
\* fetches the catalog itself
FreshOutput(rs) ==
    Checked(rs, BuildUpcMap(FetchByUpc(UpcKeysOf(rs))),
            IndexAtf(<<>>, catalog), IndexManufacturerModel(<<>>, catalog))

\* C24: runs share no state and do not merge: a run starts with empty
\* identifier and attribute indexes, and the step that completes it makes
\* results exactly the verdicts of that run (one per row of the run, from
\* indexes built from its own fetch), whatever results held before.
C24_RunsReplaceResults ==
    [][/\ (pc = "idle" /\ pc' # "idle") =>
            /\ upcMap' = <<>>
            /\ catalogUpc' = <<>>
            /\ atfCandidateMap' = <<>>
            /\ atfManufacturerModelMap' = <<>>
       /\ RunCompletes => results' = FreshOutput(runRows)]_vars

\* a run over a one-row file is scanning while the verdicts of an earlier
\* run over a two-row file are displayed
C24_Witness ==
    /\ pc = "scan"
    /\ Len(runRows) = 1
    /\ Len(results) = 2
    /\ results # FreshOutput(runRows)

\* C26: whenever no run is in progress and results is non-empty, results
\* holds exactly one entry per row of the current rows, in the order of the
\* rows, each carrying the canonical fields of its row; this under every
\* interleaving of file selections with the start and the end of runs.
C26_ResultsMatchLoadedFile ==
    (pc = "idle" /\ results # <<>>) =>
        /\ Len(results) = Len(rows)
        /\ \A i \in 1..Len(results) :
              i <= Len(rows) /\ ResultOfRow(results[i], rows[i])

\* C25: whenever the status of a verified row is a VERIFIED variant, one
\* catalog record agrees with the row on all four core fields under the
\* field comparators; agreement spread over several records does not make a
\* row VERIFIED.
C25_VerifiedBySingleRecord ==
    \A i \in Verdicts :
        results[i].Status.kind = "VERIFIED" =>
            \E j \in 1..Len(catalog) : Agreeing(i, j) = CoreKeySet

\* C27: a run starts only while loading is false and rows is non-empty;
\* the start sets loading and clears the error of an earlier run or parse;
\* loading is set exactly while a run is in progress; every run that has
\* started ends, by completing or by failing at a fetch, with loading reset
\* to false.
C27_RunsEndWithLoadingReset ==
    /\ [][/\ (pc = "idle" /\ pc' # "idle") =>
                /\ ~loading
                /\ Len(rows) # 0
                /\ loading'
                /\ error' = NoError
          /\ loading' = (pc' # "idle")
          /\ (RunCompletes \/ RunFails) => ~loading']_vars
    /\ loading ~> (pc = "idle" /\ ~loading)

\* a run has failed at a fetch while the verdicts of an earlier, completed
\* run are displayed, and loading is reset
C27_Witness ==
    /\ pc = "idle"
    /\ ~loading
    /\ error = FetchError
    /\ results # <<>>
    /\ Len(rows) # 0
    /\ loads = MaxLoads + 1

----------------------------------------------------------------------------
(* Status and mismatch metadata                                            *)

\* the labels a NOT VERIFIED status names among the fields that can carry
\* metadata
FieldLabels == {"UPC", "Manufacturer", "Model", "Type", "Caliber"}
NamedFields(res) ==
    {res.Status.detail[n] : n \in 1..Len(res.Status.detail)} \cap FieldLabels

\* C28: for every result, the status is a VERIFIED variant exactly when the
\* mismatch metadata is empty; a NOT VERIFIED result annotates at least one
\* field and every field its status names; an UNKNOWN result annotates the
\* four core fields, each with an empty expected value.
C28_StatusAgreesWithMetadata ==
    \A i \in Verdicts :
        /\ (results[i].Status.kind = "VERIFIED") = (DOMAIN results[i].meta = {})
        /\ results[i].Status.kind = "NOT VERIFIED" =>
              /\ DOMAIN results[i].meta # {}
              /\ NamedFields(results[i]) \subseteq DOMAIN results[i].meta
        /\ results[i].Status.kind = "UNKNOWN" =>
              /\ DOMAIN results[i].meta =
                    {"Manufacturer", "Model", "Type", "Caliber"}
              /\ \A l \in DOMAIN results[i].meta :
                    results[i].meta[l].expected = <<>>

\* a NOT VERIFIED verdict that names two fields and annotates both
C28_Witness ==
    \E i \in Verdicts :
        /\ results[i].Status.kind = "NOT VERIFIED"
        /\ Cardinality(DOMAIN results[i].meta) = 2
        /\ NamedFields(results[i]) = DOMAIN results[i].meta

----------------------------------------------------------------------------
(* The attribute indexes                                                   *)

\* the records of recs with four non-empty normalised core attributes, in
\* the order of recs
CompleteRecords(recs) ==
    SelectSeq(recs, LAMBDA rec : CoreComplete(CoreOfCatalogRow(rec)))

\* the complete records of recs under their attribute-tuple keys, and under
\* their manufacturer+model keys, in the order of recs
CompleteTupleIndex(recs) ==
    LET kept == CompleteRecords(recs)
    IN  [n \in 1..Len(kept) |->
            [key |-> comboKeyOf(CoreOfCatalogRow(kept[n])), row |-> kept[n]]]

CompleteManufacturerModelIndex(recs) ==
    LET kept == CompleteRecords(recs)
    IN  [n \in 1..Len(kept) |->
            [key |-> manufacturerModelKeyOf(CoreOfCatalogRow(kept[n])),
             row |-> kept[n]]]

\* C29: a catalog record with an empty normalised manufacturer, model, type
\* or caliber never enters the attribute-tuple index or the
\* manufacturer+model index: during the scan both indexes hold exactly the
\* complete records scanned so far, under their keys and in scan order, and
\* the verdicts of a completed run are those of the indexes of the complete
\* records of the catalog (an incomplete record is a candidate only through
\* the identifier index).
C29_IndexesHoldCompleteRecords ==
    [][/\ pc' = "scan" =>
            /\ atfCandidateMap' =
                  CompleteTupleIndex(SubSeq(catalog, 1, from'))
            /\ atfManufacturerModelMap' =
                  CompleteManufacturerModelIndex(SubSeq(catalog, 1, from'))
       /\ RunCompletes =>
            results' =
                Checked(runRows, upcMap, CompleteTupleIndex(catalog),
                        CompleteManufacturerModelIndex(catalog))]_vars

\* a full page has been scanned: one of its records is in the indexes and
\* an incomplete one is not
C29_Witness ==
    /\ pc = "scan"
    /\ from = pageSize
    /\ Len(atfCandidateMap) > 0
    /\ Len(atfCandidateMap) < from
    /\ Len(atfManufacturerModelMap) = Len(atfCandidateMap)

----------------------------------------------------------------------------
(* Status filters                                                          *)

ActiveSet == {activeStatusFilters[n] : n \in 1..Len(activeStatusFilters)}

\* C30: the active status filters are always a non-empty list without
\* duplicates of keys among VERIFIED, NOT VERIFIED, UNKNOWN; a click changes
\* them only by adding an inactive key, by removing one of several active
\* keys (a click on the only active key changes nothing), or by restoring
\* all three; statusKeyForRow gives every result one of the three keys, the
\* kind of its status, so that with all three active no result is filtered
\* out.
C30_StatusFiltersNeverEmpty ==
    /\ [](/\ activeStatusFilters # <<>>
          /\ ActiveSet \subseteq StatusKinds
          /\ Cardinality(ActiveSet) = Len(activeStatusFilters)
          /\ \A i \in Verdicts :
                statusKeyForRow(StatusText(results[i].Status)) =
                    results[i].Status.kind
          /\ ActiveSet = StatusKinds => filteredResults = results)
    /\ [][activeStatusFilters' # activeStatusFilters =>
            \/ activeStatusFilters' = AllStatusFilters
            \/ \E key \in StatusKinds \ ActiveSet :
                  activeStatusFilters' = Append(activeStatusFilters, key)
            \/ \E key \in ActiveSet :
                  /\ Len(activeStatusFilters) > 1
                  /\ activeStatusFilters' =
                        SelectSeq(activeStatusFilters,
                                  LAMBDA item : item # key)]_vars

\* one filter is left active and hides a verdict of another kind
C30_Witness ==
    /\ Len(activeStatusFilters) = 1
    /\ Len(results) = 2
    /\ Len(filteredResults) = 1

====
